---- MODULE Spec2Model ----
(***************************************************************************)
(* Model of the purple-team ELK tagging pipeline of the orchestrator       *)
(* plugin (plugins/orchestrator/app/elk_tagger.py): the circuit breaker,   *)
(* the concurrency limiter, the backend write and the fallback file path   *)
(* of ELKTagger.tag() and ELKTagger.tag_link().                            *)
(*                                                                         *)
(* Python strings are sequences of one-character strings.  One step of the *)
(* model is one uninterrupted run of a coroutine between two suspension    *)
(* points of the asyncio event loop.                                       *)
(***************************************************************************)
EXTENDS Integers, Sequences, FiniteSets, Bags, TLC

----------------------------------------------------------------------------
(* Bounds of the model *)

\* calls the environment makes in one behaviour of a bounded specification
MaxCalls == 3

\* calls in progress at once in the specifications that do not study the limiter
MaxConcurrent == 2

\* calls the environment makes in the limiter specification
MaxLimiterCalls == 7

\* calls the environment makes, one after the other, in the breaker specification
MaxBreakerCalls == 7

\* seconds the wall clock advances
MaxTime == 1

\* longest list of operation ids handed to the detection fetcher
MaxIds == 2

\* most detection-status sub-buckets of one technique bucket
MaxStatusBuckets == 2

\* most steps of an action record, and most entries of a list, handed to the
\* builder and the sanitizer on their own (the records that exceed the caps
\* apart)
MaxChain == 3

\* report requests and completion events made
MaxReportCalls == 3

----------------------------------------------------------------------------
(* Program constants *)

DEFAULT_MAX_FAILURES == 5
TEST_MAX_FAILURES == 3
SEMAPHORE_SLOTS == 5
ID_MIN_LEN == 8
ID_MAX_LEN == 64
NAME_MAX_LEN == 200
CLIENT_ID_MAX_LEN == 100
TECHNIQUE_CAP == 500
TAG_TECHNIQUE_CAP == 50
TAG_TACTIC_CAP == 20
ABILITY_CAP == 100
FILE_ID_PREFIX_LEN == 8
UUID_HEX_LEN == 32
REASON_DETAIL_MAX_LEN == 100
RULE_NAME_CAP == 3

----------------------------------------------------------------------------
(* Characters and the regular expressions of the tagger *)

Digits == {"0", "1", "2", "3", "4", "5", "6", "7", "8", "9"}

Lower == {"a", "b", "c", "d", "e", "f", "g", "h", "i", "j", "k", "l", "m",
          "n", "o", "p", "q", "r", "s", "t", "u", "v", "w", "x", "y", "z"}

Upper == {"A", "B", "C", "D", "E", "F", "G", "H", "I", "J", "K", "L", "M",
          "N", "O", "P", "Q", "R", "S", "T", "U", "V", "W", "X", "Y", "Z"}

AlphaNum == Lower \cup Upper \cup Digits

\* \w
WordChars == AlphaNum \cup {"_"}

\* \s
SpaceChars == {" ", "\t", "\n"}

Min(a, b) == IF a < b THEN a ELSE b

\* a slice that keeps everything
TakeAll(s, n) == s

\* s[:n]
Take(s, n) == SubSeq(s, 1, Min(n, Len(s)))

AllIn(s, chars) == \A i \in 1..Len(s) : s[i] \in chars

\* a substitution that removes the first offending character only
StripFirstOutside(s, chars) ==
    LET bad == {i \in 1..Len(s) : s[i] \notin chars}
        k == CHOOSE i \in bad : \A j \in bad : i <= j
    IN IF bad = {} THEN s ELSE SubSeq(s, 1, k - 1) \o SubSeq(s, k + 1, Len(s))

\* re.sub(r'[^chars]', '', s)
StripOutside(s, chars) == SelectSeq(s, LAMBDA c : c \in chars)

\* Python's $ matches at the end of the string and also just before a
\* newline that ends the string: the candidates a pattern "^...$" may cover.
DollarCandidates(s) ==
    {s} \cup (IF Len(s) > 0 /\ s[Len(s)] = "\n"
              THEN {SubSeq(s, 1, Len(s) - 1)} ELSE {})

\* [a-zA-Z0-9\-]{8,64}
IdBodyMatches(s) ==
    /\ Len(s) >= ID_MIN_LEN
    /\ Len(s) <= ID_MAX_LEN
    /\ AllIn(s, AlphaNum \cup {"-"})

\* the variant of the identifier pattern without the length check
IsValidOperationIdNoLength(operation_id) ==
    \E s \in DollarCandidates(operation_id) : AllIn(s, AlphaNum \cup {"-"})

\* bool(re.match(r'^[a-zA-Z0-9\-]{8,64}$', str(operation_id)))
IsValidOperationId(operation_id) ==
    \E s \in DollarCandidates(operation_id) : IdBodyMatches(s)

\* T\d{4}(\.\d{3})?
TechniqueBodyMatches(s) ==
    /\ Len(s) \in {5, 9}
    /\ s[1] = "T"
    /\ \A i \in 2..5 : s[i] \in Digits
    /\ Len(s) = 9 => (s[6] = "." /\ \A i \in 7..9 : s[i] \in Digits)

\* re.match(r'^T\d{4}(\.\d{3})?$', str(tid))
IsTechniqueId(tid) == \E s \in DollarCandidates(tid) : TechniqueBodyMatches(s)

\* re.match(r'^[a-zA-Z0-9\s]+$', str(tactic))
IsTactic(tactic) == Len(tactic) > 0 /\ AllIn(tactic, AlphaNum \cup SpaceChars)

----------------------------------------------------------------------------
(* _build_metadata and _sanitize_metadata *)

\* a list left as it is
DedupeKeepsAll(xs) == xs

\* the distinct entries of a list, in order of first occurrence
Dedupe(xs) ==
    LET first == SelectSeq([i \in 1..Len(xs) |-> i],
                           LAMBDA i : \A j \in 1..(i - 1) : xs[j] # xs[i])
    IN [k \in 1..Len(first) |-> xs[first[k]]]

\* list(set(xs)): every entry once, in an order the interpreter picks
SetOrders(xs) ==
    LET d == Dedupe(xs)
        n == Len(d)
    IN {[i \in 1..n |-> d[p[i]]] :
          p \in {q \in [1..n -> 1..n] : \A i, j \in 1..n : i # j => q[i] # q[j]}}

\* the truthy values of one ability field along operation.chain
ChainField(chain, field) ==
    LET vals == [i \in 1..Len(chain) |-> chain[i][field]]
    IN SelectSeq(vals, LAMBDA v : v # <<>>)

FirstOrNone(xs) == IF xs = <<>> THEN <<>> ELSE xs[1]

ConstantTags ==
    <<[lit |-> "purple_team"], [lit |-> "caldera"],
      [lit |-> "tl_labs"], [lit |-> "simulation"]>>

\* a token that does not name its technique or tactic
PurpleTagBlank(t) == [lit |-> "purple_", of |-> <<>>]

\* f'purple_{t}'
PurpleTag(t) == [lit |-> "purple_", of |-> t]

\* the document of an operation; deduped_techniques and deduped_tactics are
\* list(set(techniques)) and list(set(tactics))
BuildMetadata(operation, deduped_techniques, deduped_tactics) ==
    LET ability_names == ChainField(operation.chain, "name")
        techniques_list == Take(deduped_techniques, TECHNIQUE_CAP)
        tactics_list == deduped_tactics
    IN [kind |-> "operation",
        purple |-> [technique |-> FirstOrNone(techniques_list),
                    techniques |-> techniques_list,
                    tactic |-> FirstOrNone(tactics_list),
                    tactics |-> tactics_list,
                    operation_id |-> operation.id,
                    operation_name |-> operation.name,
                    agent_id |-> operation.group,
                    detection_status |-> "pending",
                    ability_count |-> Len(ability_names),
                    technique_count |-> Len(techniques_list),
                    status |-> operation.state],
        tags |-> ConstantTags
                 \o [i \in 1..Min(TAG_TECHNIQUE_CAP, Len(techniques_list)) |->
                        PurpleTag(techniques_list[i])]
                 \o [i \in 1..Min(TAG_TACTIC_CAP, Len(tactics_list)) |->
                        PurpleTag(tactics_list[i])],
        operation_id |-> operation.id,
        operation_name |-> operation.name,
        purple_team_exercise |-> TRUE,
        client_id |-> operation.group,
        techniques |-> techniques_list,
        tactics |-> tactics_list,
        abilities |-> Take(ability_names, ABILITY_CAP),
        status |-> operation.state]

\* a sanitizer that rewrites the names and leaves the lists as they are
SanitizeMetadataKeepsLists(metadata) ==
    LET m1 == IF "operation_name" \in DOMAIN metadata
              THEN [metadata EXCEPT !.operation_name =
                       Take(StripOutside(@, WordChars \cup SpaceChars \cup {"-"}),
                            NAME_MAX_LEN)]
              ELSE metadata
    IN IF "client_id" \in DOMAIN m1
       THEN [m1 EXCEPT !.client_id =
                Take(StripOutside(@, WordChars \cup {"-"}), CLIENT_ID_MAX_LEN)]
       ELSE m1

\* the top-level keys the sanitizer rewrites, when the document has them
SanitizeMetadata(metadata) ==
    LET m1 == IF "operation_name" \in DOMAIN metadata
              THEN [metadata EXCEPT !.operation_name =
                       Take(StripOutside(@, WordChars \cup SpaceChars \cup {"-"}),
                            NAME_MAX_LEN)]
              ELSE metadata
        m2 == IF "techniques" \in DOMAIN m1
              THEN [m1 EXCEPT !.techniques = SelectSeq(@, IsTechniqueId)]
              ELSE m1
        m3 == IF "tactics" \in DOMAIN m2
              THEN [m2 EXCEPT !.tactics = SelectSeq(@, IsTactic)]
              ELSE m2
    IN IF "client_id" \in DOMAIN m3
       THEN [m3 EXCEPT !.client_id =
                Take(StripOutside(@, WordChars \cup {"-"}), CLIENT_ID_MAX_LEN)]
       ELSE m3

\* a name that is not a string makes re.sub raise inside the build-and-sanitize
\* step of tag()
BuildRaises(operation) == ~operation.name_is_str

----------------------------------------------------------------------------
(* The records handed to tag() *)

T1078 == <<"T", "1", "0", "7", "8">>

GoodId == <<"o", "p", "-", "1", "2", "3", "4", "5", "a">>

\* shares its first eight characters with GoodId
GoodId2 == <<"o", "p", "-", "1", "2", "3", "4", "5", "b">>

ShortId == <<"a", "b", "c">>

BadCharId == <<"i", "n", "v", "a", "l", "i", "d", "@", "i", "d">>

LongId == [i \in 1..(ID_MAX_LEN + 1) |-> "a"]

ValidAccounts ==
    [technique_id |-> T1078,
     tactic |-> <<"p", "e", "r", "s", "i", "s", "t">>,
     name |-> <<"V", "a", "l", "i", "d">>]

OpGood ==
    [is_none |-> FALSE, has_id |-> TRUE, id |-> GoodId, name_is_str |-> TRUE,
     name |-> <<"O", "p", " ", "<", "1", ">">>, group |-> <<"a", "c", "m", "e">>,
     state |-> "running", chain |-> <<ValidAccounts, ValidAccounts>>]

OpGood2 ==
    [is_none |-> FALSE, has_id |-> TRUE, id |-> GoodId2, name_is_str |-> TRUE,
     name |-> <<"t", "e", "s", "t">>, group |-> <<"t", "-", "c">>,
     state |-> "finished", chain |-> <<>>]

OpWithId(id) == [OpGood2 EXCEPT !.id = id]

OpNone == [OpGood2 EXCEPT !.is_none = TRUE]

OpNoId == [OpGood2 EXCEPT !.has_id = FALSE, !.id = <<>>]

OpBadName == [OpGood2 EXCEPT !.name_is_str = FALSE, !.name = <<>>]

\* the operations of the bounded specification
Operations ==
    {OpGood, OpGood2, OpNone, OpNoId, OpBadName,
     OpWithId(ShortId), OpWithId(BadCharId), OpWithId(LongId)}

----------------------------------------------------------------------------
(* State *)

VARIABLES
    failure_count,     \* self._failure_count
    circuit_open,      \* self._circuit_open
    max_failures,      \* self._max_failures
    elk_client,        \* whether self.elk_client is a client (TRUE) or None
    tag_semaphore,     \* the value of self._tag_semaphore
    calls,             \* the bag of tag()/tag_link() calls in progress
    fallback_files,    \* the files of self.fallback_dir: name -> content
    now,               \* the wall clock, in seconds
    ncalls,            \* calls made so far
    index_calls,       \* elk_client.index calls so far (the mock's call count)
    only_conn_errors,  \* every write so far ended in a connection/transport error
    last,              \* what the last step did
    reporter,          \* the reporting plugin's ELKFetcher object, once constructed
    fetch,             \* the detection fetch in progress, or the last one made
    hook,              \* the orchestrator plugin's enable() and what it registered
    reports            \* the ReportService: active ids, requests in progress

\* the state of the tagging service
tagger_vars == <<failure_count, circuit_open, max_failures, elk_client,
                 tag_semaphore, calls, fallback_files, now, ncalls, index_calls,
                 only_conn_errors, last>>

vars == <<failure_count, circuit_open, max_failures, elk_client, tag_semaphore,
          calls, fallback_files, now, ncalls, index_calls, only_conn_errors,
          last, reporter, fetch, hook, reports>>

tagger_vars_but_last ==
    <<failure_count, circuit_open, max_failures, elk_client, tag_semaphore, calls,
      fallback_files, now, ncalls, index_calls, only_conn_errors>>

\* the state of the plugins' host-facing services
host_vars == <<hook, reports>>

\* the orchestrator plugin before enable() is called
NoHook == [pc |-> "idle", services |-> <<>>, routes |-> {}, observed |-> {},
          result |-> "none"]

\* ReportService after __init__: no report is being generated
NoReports == [active |-> {}, requests |-> {}, made |-> 0, renderings |-> 0,
             answer |-> [via |-> "none"]]

\* report_svc before it has constructed an ELKFetcher
NoReporter == [constructed |-> FALSE, elk_client |-> FALSE, connected |-> FALSE,
               last_error |-> FALSE]

NoResult == [available |-> "none"]

\* an answer without buckets
EmptyResponse == [total |-> 0, buckets |-> <<>>, by_status |-> <<>>]

\* _validate_elk_schema has not run
NoSchema == [outcome |-> "none", missing |-> <<>>, indices |-> <<>>, required |-> <<>>]

\* no detection fetch has been made
NoFetch ==
    [fetcher |-> "none", pc |-> "idle", ids |-> <<>>, validated_ids |-> <<>>,
     created |-> 0, closed |-> 0, network |-> 0, query_ids |-> <<>>,
     schema |-> NoSchema, query |-> "none", response |-> EmptyResponse,
     pending |-> NoResult, result |-> NoResult, raised |-> FALSE]

NoMetadata == [kind |-> "none"]

Event(op, event, value, fallback, id, metadata) ==
    [op |-> op, event |-> event, value |-> value, fallback |-> fallback,
     id |-> id, metadata |-> metadata]

Call(op, stage, arg, metadata) ==
    [op |-> op, stage |-> stage, arg |-> arg, metadata |-> metadata]

One(c) == SetToBag({c})

InStage(stage) == {c \in BagToSet(calls) : c.stage = stage}

NumInStage(stage) ==
    BagCardinality([c \in InStage(stage) |-> calls[c]])

NumWaiting == NumInStage("waiting")

NumPosting == NumInStage("posting")

\* calls holding a slot of the limiter
NumPastLimiter == BagCardinality(calls) - NumWaiting

\* a history counter; it stops at the bound where calls are not bounded
CountCap ==
    LET m == IF MaxCalls > MaxLimiterCalls THEN MaxCalls ELSE MaxLimiterCalls
    IN IF m > MaxBreakerCalls THEN m ELSE MaxBreakerCalls

Count(n) == IF n < CountCap THEN n + 1 ELSE n

Init ==
    /\ failure_count = 0
    /\ circuit_open = FALSE
    /\ max_failures \in {DEFAULT_MAX_FAILURES, TEST_MAX_FAILURES}
    /\ elk_client \in BOOLEAN
    /\ tag_semaphore = SEMAPHORE_SLOTS
    /\ calls = EmptyBag
    /\ fallback_files = <<>>
    /\ now = 0
    /\ ncalls = 0
    /\ index_calls = 0
    /\ only_conn_errors = TRUE
    /\ last = Event("none", "init", "pending", "not_run", <<>>, NoMetadata)
    /\ reporter = NoReporter
    /\ fetch = NoFetch
    /\ hook = NoHook
    /\ reports = NoReports

----------------------------------------------------------------------------
(* The limiter: asyncio.Semaphore(5) *)

\* Semaphore.locked(): no slot is free, or earlier callers are still queued
Locked == tag_semaphore = 0 \/ NumWaiting > 0

\* a limiter that admits everybody
SemAcquireNoLimit(v) == v

\* entering "async with self._tag_semaphore"
SemAcquire(v) == v - 1

\* a limiter that keeps the slot
SemReleaseLeak(v) == v

\* leaving "async with self._tag_semaphore", by return or by exception
SemRelease(v) == v + 1

----------------------------------------------------------------------------
(* The circuit breaker *)

\* a breaker that opens one failure late
BreakerTripsLate(count, limit) == count > limit

\* if self._failure_count >= self._max_failures
BreakerTrips(count, limit) == count >= limit

\* a failure that counts double
FailureCountedTwice(count) == count + 2

\* self._failure_count += 1
FailureCounted(count) == count + 1

\* a send decision that does not look at the breaker
SendAllowedIgnoringBreaker(client, open) == client

\* if self.elk_client and not self._circuit_open
SendAllowed(client, open) == client /\ ~open

----------------------------------------------------------------------------
(* The fallback file *)

\* f'{prefix}{timestamp}_{id[:8]}.json'
FallbackName(prefix, timestamp, id) ==
    [prefix |-> prefix, timestamp |-> timestamp,
     id8 |-> Take(id, FILE_ID_PREFIX_LEN)]

\* open(filepath, 'w') and f.write(json.dumps(metadata, indent=2)): the file
\* of that name now holds this document, whatever it held before
WriteFile(files, name, metadata) == (name :> metadata) @@ files

\* the body of the coroutine function _write_fallback
WriteFallback(files, metadata, timestamp) ==
    WriteFile(files, FallbackName("fallback_", timestamp, metadata.operation_id),
              metadata)

\* await asyncio.to_thread(self._write_fallback, metadata): the worker thread
\* calls the coroutine function, which only creates a coroutine object; the
\* object is returned and dropped, and the body never runs
ToThreadWriteFallback(files, metadata, timestamp) == files

----------------------------------------------------------------------------
(* tag() *)

\* the checks of tag() before the document is sent
TagValidate(operation) ==
    IF operation.is_none THEN "null"
    ELSE IF ~operation.has_id \/ operation.id = <<>> THEN "no_id"
    ELSE IF ~IsValidOperationId(operation.id) THEN "bad_id"
    ELSE IF BuildRaises(operation) THEN "build_error"
    ELSE "ok"

\* the checks at the top of _post_to_elk_with_retry, which raise before the write
PostPrecheckRaises == ~elk_client \/ circuit_open

\* tag() from the acquired limiter slot to its first suspension or its return;
\* rest is the bag of the other calls in progress
TagBody(operation, rest) ==
    LET path == TagValidate(operation) IN
    IF path # "ok"
    THEN /\ calls' = rest
         /\ tag_semaphore' = SemRelease(SemAcquire(tag_semaphore))
         /\ last' = Event("tag", path, "none", "not_run", operation.id, NoMetadata)
         /\ UNCHANGED index_calls
    ELSE \E techniques \in SetOrders(ChainField(operation.chain, "technique_id")),
            tactics \in SetOrders(ChainField(operation.chain, "tactic")) :
         LET metadata == SanitizeMetadata(BuildMetadata(operation, techniques, tactics))
             send == SendAllowed(elk_client, circuit_open) /\ ~PostPrecheckRaises
         IN /\ tag_semaphore' = SemAcquire(tag_semaphore)
            /\ calls' = rest (+) One(Call("tag", IF send THEN "posting" ELSE "to_thread",
                                          operation, metadata))
            /\ index_calls' = IF send THEN Count(index_calls) ELSE index_calls
            /\ last' = Event("tag", IF send THEN "write_issued" ELSE "write_skipped",
                             "pending", "not_run", operation.id, metadata)

\* a caller awaits tagger.tag(operation)
TagCall(operation) ==
    /\ ncalls' = Count(ncalls)
    /\ IF Locked
       THEN /\ calls' = calls (+) One(Call("tag", "waiting", operation, NoMetadata))
            /\ last' = Event("tag", "waiting", "pending", "not_run", operation.id,
                             NoMetadata)
            /\ UNCHANGED <<tag_semaphore, index_calls>>
       ELSE TagBody(operation, calls)
    /\ UNCHANGED <<host_vars, reporter, fetch, failure_count, circuit_open, max_failures, elk_client,
                   fallback_files, now, only_conn_errors>>

\* a queued tag() call gets its slot
TagAcquire(c) ==
    /\ c \in InStage("waiting")
    /\ c.op = "tag"
    /\ tag_semaphore > 0
    /\ TagBody(c.arg, calls (-) One(c))
    /\ UNCHANGED <<host_vars, reporter, fetch, failure_count, circuit_open, max_failures, elk_client,
                   fallback_files, now, ncalls, only_conn_errors>>

\* tag() goes on to the fallback step after a failed send
TagToFallback(c, event) ==
    /\ calls' = (calls (-) One(c)) (+) One([c EXCEPT !.stage = "to_thread"])
    /\ last' = Event("tag", event, "pending", "not_run", c.arg.id, c.metadata)
    /\ UNCHANGED tag_semaphore

\* the backend answers the write of _post_to_elk_with_retry: outcome is "ok",
\* "conn_error" (ConnectionError, TransportError) or "other_error"; ack_has_id
\* tells whether the acknowledgment carries "_id"
TagWriteCompletes(c, outcome, ack_has_id) ==
    /\ c \in InStage("posting")
    /\ c.op = "tag"
    /\ only_conn_errors' = (only_conn_errors /\ outcome = "conn_error")
    /\ CASE outcome = "ok" ->
              /\ failure_count' = 0
              /\ circuit_open' = FALSE
              /\ IF ack_has_id
                 THEN /\ calls' = calls (-) One(c)
                      /\ tag_semaphore' = SemRelease(tag_semaphore)
                      /\ last' = Event("tag", "write_ok", "ack", "not_run",
                                       c.arg.id, c.metadata)
                 ELSE TagToFallback(c, "write_ok_log_error")
         [] outcome = "conn_error" ->
              /\ failure_count' = FailureCounted(failure_count)
              /\ circuit_open' = (circuit_open
                                    \/ BreakerTrips(failure_count', max_failures))
              /\ TagToFallback(c, "write_conn_error")
         [] OTHER ->
              /\ UNCHANGED <<failure_count, circuit_open>>
              /\ TagToFallback(c, "write_other_error")
    /\ UNCHANGED <<host_vars, reporter, fetch, max_failures, elk_client, fallback_files, now, ncalls,
                   index_calls>>

\* a write with no timeout around it
HardTimeoutMissing == FALSE

\* asyncio.timeout(35) around the write is in force
HardTimeoutArmed == TRUE

\* the write is not answered within 35 s: asyncio.TimeoutError, re-raised as
\* ConnectionError from inside the handler, past the breaker's except clause
TagWriteTimesOut(c) ==
    /\ HardTimeoutArmed
    /\ c \in InStage("posting")
    /\ c.op = "tag"
    /\ only_conn_errors' = FALSE
    /\ TagToFallback(c, "write_timeout")
    /\ UNCHANGED <<host_vars, reporter, fetch, failure_count, circuit_open, max_failures, elk_client,
                   fallback_files, now, ncalls, index_calls>>

\* the fallback step of tag() ends and tag() returns None
TagToThreadDone(c) ==
    /\ c \in InStage("to_thread")
    /\ c.op = "tag"
    /\ fallback_files' = ToThreadWriteFallback(fallback_files, c.metadata, now)
    /\ calls' = calls (-) One(c)
    /\ tag_semaphore' = SemRelease(tag_semaphore)
    /\ last' = Event("tag", "fallback_returned", "none",
                     IF fallback_files' # fallback_files THEN "written" ELSE "no_file",
                     c.arg.id, c.metadata)
    /\ UNCHANGED <<host_vars, reporter, fetch, failure_count, circuit_open, max_failures, elk_client, now,
                   ncalls, index_calls, only_conn_errors>>

\* a second passes
Tick ==
    /\ now < MaxTime
    /\ now' = now + 1
    /\ last' = Event("none", "tick", "pending", "not_run", <<>>, NoMetadata)
    /\ UNCHANGED <<host_vars, reporter, fetch, failure_count, circuit_open, max_failures, elk_client,
                   tag_semaphore, calls, fallback_files, ncalls, index_calls,
                   only_conn_errors>>

----------------------------------------------------------------------------
(* tag_link() *)

LinkId == <<"l", "i", "n", "k", "-", "0", "0", "1", "a">>

LinkGood ==
    [is_none |-> FALSE, has_id |-> TRUE, id_is_str |-> TRUE, id |-> LinkId,
     has_ability |-> TRUE, ability_ok |-> TRUE, technique_id |-> T1078,
     tactic |-> <<"p", "e", "r", "s", "i", "s", "t">>,
     ability_name |-> <<"V", "a", "l", "i", "d">>,
     has_status |-> TRUE, status |-> 0, output |-> "absent"]

\* a step whose technique id is not in ATT&CK format and that has no status yet
LinkNoStatus ==
    [LinkGood EXCEPT !.has_status = FALSE,
                     !.technique_id = <<"T", "1", ";", "x">>]

LinkNone == [LinkGood EXCEPT !.is_none = TRUE]

LinkNoIdAttr == [LinkGood EXCEPT !.has_id = FALSE]

\* an object with an id and no "ability" attribute
LinkNoAbilityAttr == [LinkGood EXCEPT !.has_ability = FALSE, !.ability_ok = FALSE]

\* link.ability is None
LinkAbilityNone == [LinkGood EXCEPT !.ability_ok = FALSE]

\* link.ability is None and link.id is an integer
LinkAbilityNoneIntId == [LinkAbilityNone EXCEPT !.id_is_str = FALSE]

LinkArg(link, operation) == [link |-> link, operation |-> operation, id |-> link.id]

\* the (link, operation) pairs of the bounded specification
LinkArgs ==
    {LinkArg(l, OpGood2) :
        l \in {LinkGood, LinkNoStatus, LinkNone, LinkNoIdAttr, LinkNoAbilityAttr,
               LinkAbilityNone, LinkAbilityNoneIntId}}
    \cup {LinkArg(LinkGood, OpNone)}

\* _map_link_status
MapLinkStatus(status_code) ==
    CASE status_code = -5 -> "high_viz"
      [] status_code = -4 -> "untrusted"
      [] status_code = -3 -> "execute"
      [] status_code = -2 -> "discard"
      [] status_code = -1 -> "pause"
      [] status_code = 0 -> "success"
      [] status_code = 1 -> "error"
      [] status_code = 124 -> "timeout"
      [] OTHER -> "unknown"

\* the output field: None without link.output, the captured streams when the
\* result file is read, has_output False when reading it fails
LinkOutput(link) ==
    CASE link.output = "absent" -> [has_output |-> "none"]
      [] link.output = "ok" -> [has_output |-> "true"]
      [] link.output = "not_found" -> [has_output |-> "false"]
      [] OTHER -> [has_output |-> "false", error |-> link.output]

\* the checks of tag_link() before the document is built: "invalid_link" and
\* "missing_ability" return None; "raise" is an AttributeError (no ability
\* attribute) or a TypeError (link.id[:8] of a non-string) outside any try
LinkValidate(link) ==
    IF link.is_none \/ ~link.has_id THEN "invalid_link"
    ELSE IF ~link.has_ability THEN "raise"
    ELSE IF ~link.ability_ok
         THEN IF link.id_is_str THEN "missing_ability" ELSE "raise"
    ELSE "ok"

\* a build step that gives up when the captured output cannot be retrieved
LinkBuildRaisesOnOutput(link, operation) ==
    \/ ~link.id_is_str \/ operation.is_none \/ ~operation.has_id
    \/ link.output \notin {"absent", "ok"}

\* the build step of tag_link() raises, inside its try
LinkBuildRaises(link, operation) ==
    ~link.id_is_str \/ operation.is_none \/ ~operation.has_id

\* the document of one executed step
BuildLinkMetadata(link, operation) ==
    [kind |-> "link",
     purple |-> [link_id |-> link.id,
                 operation_id |-> operation.id,
                 operation_name |-> operation.name,
                 technique |-> link.technique_id,
                 tactic |-> link.tactic,
                 ability_name |-> link.ability_name,
                 status |-> IF link.has_status THEN MapLinkStatus(link.status)
                            ELSE "unknown",
                 status_code |-> IF link.has_status THEN link.status ELSE -3,
                 detection_status |-> "pending",
                 output |-> LinkOutput(link)],
     tags |-> <<[lit |-> "purple_team"], [lit |-> "caldera"], [lit |-> "tl_labs"],
                [lit |-> "link_execution"],
                IF link.technique_id # <<>> THEN PurpleTag(link.technique_id)
                ELSE [lit |-> "purple_unknown"],
                [lit |-> "purple_link_", of |-> Take(link.id, FILE_ID_PREFIX_LEN)]>>,
     outcome |-> IF link.has_status /\ link.status = 0 THEN "success" ELSE "failure",
     link_id |-> link.id,
     operation_id |-> operation.id,
     purple_team_exercise |-> TRUE,
     technique |-> link.technique_id,
     tactic |-> link.tactic,
     ability_name |-> link.ability_name]

\* the fallback step of tag_link(), run in line: the file is written, or the
\* write fails (disk_ok is FALSE) and the error is logged; None is returned
LinkFallbackAndReturn(c_arg, metadata, rest, event, disk_ok, held) ==
    /\ fallback_files' =
          IF disk_ok
          THEN WriteFile(fallback_files,
                         FallbackName("fallback_link_", now, c_arg.link.id), metadata)
          ELSE fallback_files
    /\ calls' = rest
    /\ tag_semaphore' = SemRelease(held)
    /\ last' = Event("tag_link", event, "none",
                     IF disk_ok THEN "written" ELSE "failed", c_arg.id, metadata)

\* tag_link() from the acquired limiter slot to its first suspension or its end
LinkBody(arg, rest, disk_ok) ==
    LET path == LinkValidate(arg.link) IN
    IF path # "ok" \/ LinkBuildRaises(arg.link, arg.operation)
    THEN /\ calls' = rest
         /\ tag_semaphore' = SemRelease(SemAcquire(tag_semaphore))
         /\ last' = Event("tag_link", IF path # "ok" THEN path ELSE "build_error",
                          IF path = "raise" THEN "raise" ELSE "none", "not_run",
                          arg.id, NoMetadata)
         /\ UNCHANGED <<index_calls, fallback_files>>
    ELSE LET metadata ==
                 SanitizeMetadata(BuildLinkMetadata(arg.link, arg.operation))
         IN IF SendAllowed(elk_client, circuit_open)
            THEN /\ tag_semaphore' = SemAcquire(tag_semaphore)
                 /\ calls' = rest (+) One(Call("tag_link", "posting", arg, metadata))
                 /\ index_calls' = Count(index_calls)
                 /\ last' = Event("tag_link", "write_issued", "pending", "not_run",
                                  arg.id, metadata)
                 /\ UNCHANGED fallback_files
            ELSE /\ LinkFallbackAndReturn(arg, metadata, rest, "write_skipped",
                                          disk_ok, SemAcquire(tag_semaphore))
                 /\ UNCHANGED index_calls

\* a caller awaits tagger.tag_link(link, operation)
LinkCall(arg, disk_ok) ==
    /\ ncalls' = Count(ncalls)
    /\ IF Locked
       THEN /\ calls' = calls (+) One(Call("tag_link", "waiting", arg, NoMetadata))
            /\ last' = Event("tag_link", "waiting", "pending", "not_run", arg.id,
                             NoMetadata)
            /\ UNCHANGED <<tag_semaphore, index_calls, fallback_files>>
       ELSE LinkBody(arg, calls, disk_ok)
    /\ UNCHANGED <<host_vars, reporter, fetch, failure_count, circuit_open, max_failures, elk_client, now,
                   only_conn_errors>>

\* a queued tag_link() call gets its slot
LinkAcquire(c, disk_ok) ==
    /\ c \in InStage("waiting")
    /\ c.op = "tag_link"
    /\ tag_semaphore > 0
    /\ LinkBody(c.arg, calls (-) One(c), disk_ok)
    /\ UNCHANGED <<host_vars, reporter, fetch, failure_count, circuit_open, max_failures, elk_client, now,
                   ncalls, only_conn_errors>>

\* the backend answers the write of tag_link()
LinkWriteCompletes(c, outcome, disk_ok) ==
    /\ c \in InStage("posting")
    /\ c.op = "tag_link"
    /\ only_conn_errors' = (only_conn_errors /\ outcome = "conn_error")
    /\ CASE outcome = "ok" ->
              /\ failure_count' = 0
              /\ circuit_open' = FALSE
              /\ IF c.arg.link.has_status
                 THEN /\ calls' = calls (-) One(c)
                      /\ tag_semaphore' = SemRelease(tag_semaphore)
                      /\ last' = Event("tag_link", "write_ok", "ack", "not_run",
                                       c.arg.id, c.metadata)
                      /\ UNCHANGED fallback_files
                 ELSE LinkFallbackAndReturn(c.arg, c.metadata, calls (-) One(c),
                                            "write_ok_log_error", disk_ok,
                                            tag_semaphore)
         [] outcome = "conn_error" ->
              /\ failure_count' = FailureCounted(failure_count)
              /\ circuit_open' = (circuit_open
                                    \/ BreakerTrips(failure_count', max_failures))
              /\ LinkFallbackAndReturn(c.arg, c.metadata, calls (-) One(c),
                                       "write_conn_error", disk_ok, tag_semaphore)
         [] OTHER ->
              /\ UNCHANGED <<failure_count, circuit_open>>
              /\ LinkFallbackAndReturn(c.arg, c.metadata, calls (-) One(c),
                                       "write_other_error", disk_ok, tag_semaphore)
    /\ UNCHANGED <<host_vars, reporter, fetch, max_failures, elk_client, now, ncalls, index_calls>>

\* the write of tag_link() is not answered within 35 s: the timeout is logged
LinkWriteTimesOut(c, disk_ok) ==
    /\ HardTimeoutArmed
    /\ c \in InStage("posting")
    /\ c.op = "tag_link"
    /\ only_conn_errors' = FALSE
    /\ LinkFallbackAndReturn(c.arg, c.metadata, calls (-) One(c), "write_timeout",
                             disk_ok, tag_semaphore)
    /\ UNCHANGED <<host_vars, reporter, fetch, failure_count, circuit_open, max_failures, elk_client, now,
                   ncalls, index_calls>>

----------------------------------------------------------------------------
(* Specifications *)

Outcomes == {"ok", "conn_error", "other_error"}

\* a queued call is admitted by the limiter
Admission ==
    \/ \E c \in BagToSet(calls) : TagAcquire(c)
    \/ \E c \in BagToSet(calls), disk_ok \in BOOLEAN : LinkAcquire(c, disk_ok)

\* a call in progress resumes after its suspension
Completion ==
    \/ \E c \in BagToSet(calls), outcome \in Outcomes, ack_has_id \in BOOLEAN :
          TagWriteCompletes(c, outcome, ack_has_id)
    \/ \E c \in BagToSet(calls) : TagWriteTimesOut(c)
    \/ \E c \in BagToSet(calls) : TagToThreadDone(c)
    \/ \E c \in BagToSet(calls), outcome \in Outcomes, disk_ok \in BOOLEAN :
          LinkWriteCompletes(c, outcome, disk_ok)
    \/ \E c \in BagToSet(calls), disk_ok \in BOOLEAN : LinkWriteTimesOut(c, disk_ok)

\* Any record, any backend and disk behaviour; at most MaxCalls calls, at most
\* MaxConcurrent of them in progress at once (fewer than the limiter's slots,
\* so no call is ever queued).
Next ==
    \/ /\ ncalls < MaxCalls
       /\ BagCardinality(calls) < MaxConcurrent
       /\ \E operation \in Operations : TagCall(operation)
    \/ /\ ncalls < MaxCalls
       /\ BagCardinality(calls) < MaxConcurrent
       /\ \E arg \in LinkArgs, disk_ok \in BOOLEAN : LinkCall(arg, disk_ok)
    \/ Completion
    \/ Tick

Spec == Init /\ [][Next]_vars

\* The breaker under consecutive calls: valid records only, each call made
\* when the one before it has returned.
NextBreaker ==
    \/ /\ ncalls < MaxBreakerCalls
       /\ calls = EmptyBag
       /\ \E operation \in {OpGood, OpGood2} : TagCall(operation)
    \/ /\ ncalls < MaxBreakerCalls
       /\ calls = EmptyBag
       /\ \E disk_ok \in BOOLEAN : LinkCall(LinkArg(LinkGood, OpGood2), disk_ok)
    \/ Completion

SpecBreaker == Init /\ [][NextBreaker]_vars

\* the tagger as constructed in production: a client, the default threshold
InitDefault ==
    /\ Init
    /\ elk_client
    /\ max_failures = DEFAULT_MAX_FAILURES

LimiterOperations == {OpGood2, OpWithId(ShortId)}

LimiterLinkArgs == {LinkArg(LinkGood, OpGood2), LinkArg(LinkNoAbilityAttr, OpGood2)}

\* The limiter: more callers than slots, calls made at any time.
NextLimiter ==
    \/ /\ ncalls < MaxLimiterCalls
       /\ \E operation \in LimiterOperations : TagCall(operation)
    \/ /\ ncalls < MaxLimiterCalls
       /\ \E arg \in LimiterLinkArgs, disk_ok \in BOOLEAN : LinkCall(arg, disk_ok)
    \/ Admission
    \/ Completion

SpecLimiter == InitDefault /\ [][NextLimiter]_vars

\* the hard timeout of a write fires
Timeouts ==
    \/ \E c \in BagToSet(calls) : TagWriteTimesOut(c)
    \/ \E c \in BagToSet(calls), disk_ok \in BOOLEAN : LinkWriteTimesOut(c, disk_ok)

\* the worker thread of the fallback step of tag() ends
ToThreadEnds == \E c \in BagToSet(calls) : TagToThreadDone(c)

\* The event loop resumes a coroutine that can run: a queued caller whose slot
\* is free, a write whose timeout is due, a finished worker thread.
Scheduling ==
    /\ WF_vars(Admission)
    /\ WF_vars(Timeouts)
    /\ WF_vars(ToThreadEnds)

\* A backend that never answers: more callers than slots, and a write ends
\* only by its hard timeout.
NextHung ==
    \/ /\ ncalls < MaxLimiterCalls
       /\ TagCall(OpGood2)
    \/ /\ ncalls < MaxLimiterCalls
       /\ \E disk_ok \in BOOLEAN : LinkCall(LinkArg(LinkGood, OpGood2), disk_ok)
    \/ Admission
    \/ Timeouts
    \/ ToThreadEnds

SpecHung == InitDefault /\ [][NextHung]_vars /\ Scheduling

\* a caller tags an operation while fewer than MaxConcurrent calls are in progress
ProbeTagCall ==
    /\ BagCardinality(calls) < MaxConcurrent
    /\ TagCall(OpGood2)

\* the backend accepts a write
WriteSucceeds ==
    \/ \E c \in BagToSet(calls) : TagWriteCompletes(c, "ok", TRUE)
    \/ \E c \in BagToSet(calls), disk_ok \in BOOLEAN : LinkWriteCompletes(c, "ok", disk_ok)

\* Callers that never stop calling and a backend that is reachable in the end:
\* calls without bound (the history counters stop at CountCap).
NextProbe ==
    \/ ProbeTagCall
    \/ /\ BagCardinality(calls) < MaxConcurrent
       /\ \E disk_ok \in BOOLEAN : LinkCall(LinkArg(LinkGood, OpGood2), disk_ok)
    \/ Completion

\* the callers keep tagging, and writes that keep being issued are accepted
\* in the end
SpecProbe ==
    /\ Init
    /\ [][NextProbe]_vars
    /\ Scheduling
    /\ WF_vars(ProbeTagCall)
    /\ SF_vars(WriteSucceeds)

\* a step whose technique id and tactic are not in the sanitizer's formats
Injected ==
    [technique_id |-> <<"T", "1", ";", "x">>,
     tactic |-> <<"a", "<", "b">>,
     name |-> <<"I", "n", "j">>]

\* an operation with one well-formed step and one that is not
OpTainted == [OpGood EXCEPT !.chain = <<ValidAccounts, Injected>>]

\* a step whose id is not in the identifier format
LinkBadId == [LinkGood EXCEPT !.id = BadCharId]

TaintedOperations == {OpGood, OpTainted, OpWithId(BadCharId)}

TaintedLinkArgs ==
    {LinkArg(LinkGood, OpGood2), LinkArg(LinkNoStatus, OpGood2),
     LinkArg(LinkBadId, OpGood2), LinkArg(LinkGood, OpWithId(ShortId))}

\* Records built from upstream data that is not well formed, tagged one after
\* the other.
NextDocuments ==
    \/ /\ ncalls < MaxCalls
       /\ calls = EmptyBag
       /\ \E operation \in TaintedOperations : TagCall(operation)
    \/ /\ ncalls < MaxCalls
       /\ calls = EmptyBag
       /\ \E arg \in TaintedLinkArgs, disk_ok \in BOOLEAN : LinkCall(arg, disk_ok)
    \/ Completion

SpecDocuments == Init /\ [][NextDocuments]_vars

\* what retrieving the captured output of a step can come to: link.output is
\* empty ("absent"), the result file is read and parsed ("ok"), it is missing
\* ("not_found": FileNotFoundError), or reading, base64-decoding or parsing it
\* raises another exception
OutputKinds ==
    {"absent", "ok", "not_found", "read_error", "decode_error", "parse_error"}

LinkWithOutput(kind) == [LinkGood EXCEPT !.output = kind]

OutputLinkArgs ==
    {LinkArg(LinkWithOutput(kind), OpGood2) : kind \in OutputKinds}
    \cup {LinkArg(LinkWithOutput("read_error"), OpNone),
          LinkArg([LinkAbilityNone EXCEPT !.output = "parse_error"], OpGood2)}

\* Steps with and without captured output, tagged one after the other.
NextOutput ==
    \/ /\ ncalls < MaxCalls
       /\ calls = EmptyBag
       /\ \E arg \in OutputLinkArgs, disk_ok \in BOOLEAN : LinkCall(arg, disk_ok)
    \/ \E c \in BagToSet(calls), outcome \in Outcomes, disk_ok \in BOOLEAN :
          LinkWriteCompletes(c, outcome, disk_ok)
    \/ \E c \in BagToSet(calls), disk_ok \in BOOLEAN : LinkWriteTimesOut(c, disk_ok)

SpecOutput == Init /\ [][NextOutput]_vars

----------------------------------------------------------------------------
(* OrchestratorService.status_endpoint *)

\* an info() failure that is counted for the breaker
StatusFailureCounted(count, elk_status) ==
    IF elk_status = "error" THEN count + 1 ELSE count

\* failure_count after the connectivity test: the except clause of
\* status_endpoint only records the error text
StatusFailureCount(count, elk_status) == count

\* the JSON body of the answer
StatusReport(elk_status) ==
    [plugin |-> "orchestrator", status |-> "running", elk_status |-> elk_status,
     circuit_breaker_open |-> circuit_open, failure_count |-> failure_count]

\* the answer is built and returned
StatusRespond(elk_status, rest) ==
    /\ calls' = rest
    /\ failure_count' = StatusFailureCount(failure_count, elk_status)
    /\ last' = Event("status", "reported", StatusReport(elk_status), "not_run", <<>>,
                     NoMetadata)
    /\ UNCHANGED <<host_vars, reporter, fetch, circuit_open, max_failures, elk_client,
                   tag_semaphore, fallback_files, now, ncalls, index_calls,
                   only_conn_errors>>

\* GET /plugin/orchestrator/status: without a client the answer is immediate,
\* with one the handler awaits elk_client.info()
StatusCall ==
    IF elk_client
    THEN /\ calls' = calls (+) One(Call("status", "info", <<>>, NoMetadata))
         /\ last' = Event("status", "info_issued", "pending", "not_run", <<>>,
                          NoMetadata)
         /\ UNCHANGED <<host_vars, reporter, fetch, failure_count, circuit_open, max_failures,
                        elk_client, tag_semaphore, fallback_files, now, ncalls,
                        index_calls, only_conn_errors>>
    ELSE StatusRespond("client_not_initialized", calls)

\* info() is answered ("connected") or raises ("error")
StatusInfoDone(c, elk_status) ==
    /\ c \in InStage("info")
    /\ c.op = "status"
    /\ StatusRespond(elk_status, calls (-) One(c))

\* Status queries at any time between and during tag() and tag_link() calls,
\* one query at a time.
NextStatus ==
    \/ /\ ncalls < MaxCalls
       /\ BagCardinality(calls) < MaxConcurrent
       /\ \E operation \in LimiterOperations : TagCall(operation)
    \/ /\ ncalls < MaxCalls
       /\ BagCardinality(calls) < MaxConcurrent
       /\ \E disk_ok \in BOOLEAN : LinkCall(LinkArg(LinkGood, OpGood2), disk_ok)
    \/ /\ BagCardinality(calls) < MaxConcurrent
       /\ InStage("info") = {}
       /\ StatusCall
    \/ \E c \in BagToSet(calls), elk_status \in {"connected", "error"} :
          StatusInfoDone(c, elk_status)
    \/ Completion

\* max_failures is 3 here, so that the breaker opens within MaxCalls calls
InitStatus ==
    /\ Init
    /\ max_failures = TEST_MAX_FAILURES

SpecStatus == InitStatus /\ [][NextStatus]_vars

----------------------------------------------------------------------------
(* hook.enable of the orchestrator plugin *)

\* the methods class OrchestratorService defines
ServiceMethods ==
    {"__init__", "on_operation_state_changed", "on_operation_completed",
     "shutdown", "status_endpoint", "tag_test_endpoint"}

Topic(exchange, queue) == [exchange |-> exchange, queue |-> queue]

\* the observe_event calls of enable(), in order
Subscriptions ==
    <<[callback |-> "on_operation_state_changed",
       topic |-> Topic("operation", "state_changed")],
      [callback |-> "on_operation_completed",
       topic |-> Topic("operation", "completed")],
      [callback |-> "on_link_status_changed",
       topic |-> Topic("link", "status_changed")]>>

\* the attribute lookup orchestrator_svc.<callback> finds a method
HasCallback(callback) == callback \in ServiceMethods

\* the routes enable() adds when app_svc has an application
DebugRoutes ==
    {[method |-> "GET", path |-> "status"], [method |-> "POST", path |-> "tag-test"],
     [method |-> "GET", path |-> "tag-test"]}

\* enable() up to its first await, or to its end: the configuration is
\* validated (an error is logged and raised again), the service is created,
\* the routes are added, and without an event service the subscriptions are
\* skipped
EnableCall(services) ==
    /\ hook.pc = "idle"
    /\ hook' =
          IF ~services.config_ok
          THEN [hook EXCEPT !.pc = "done", !.services = services,
                            !.result = "raised"]
          ELSE [pc |-> IF services.event_svc THEN "observing" ELSE "done",
                services |-> services,
                routes |-> IF services.app_svc THEN DebugRoutes ELSE {},
                observed |-> {},
                result |-> IF services.event_svc THEN "none" ELSE "enabled"]
    /\ last' = Event("enable", "called", "pending", "not_run", <<>>, NoMetadata)
    /\ UNCHANGED <<tagger_vars_but_last, reports, reporter, fetch>>

\* the next `await event_svc.observe_event(callback=orchestrator_svc.<name>,
\* ...)`: the callback is looked up first, and an AttributeError is logged and
\* raised again by the except clause of enable()
EnableObserve ==
    /\ hook.pc = "observing"
    /\ LET next == Subscriptions[Cardinality(hook.observed) + 1] IN
       hook' =
          IF ~HasCallback(next.callback)
          THEN [hook EXCEPT !.pc = "done", !.result = "raised"]
          ELSE IF Cardinality(hook.observed) + 1 = Len(Subscriptions)
          THEN [hook EXCEPT !.pc = "done", !.result = "enabled",
                            !.observed = @ \cup {next}]
          ELSE [hook EXCEPT !.observed = @ \cup {next}]
    /\ last' = Event("enable", "observe", "pending", "not_run", <<>>, NoMetadata)
    /\ UNCHANGED <<tagger_vars_but_last, reports, reporter, fetch>>

\* the event service delivers an event of an observed topic: both handlers
\* that exist look the operation up and await elk_tagger.tag(operation)
Publish(subscription, operation) ==
    /\ hook.pc = "done"
    /\ subscription \in hook.observed
    /\ subscription.callback
          \in {"on_operation_state_changed", "on_operation_completed"}
    /\ TagCall(operation)

\* The plugin is enabled with any set of host services, then events arrive.
NextEnable ==
    \/ \E services \in [config_ok : BOOLEAN, app_svc : BOOLEAN, event_svc : BOOLEAN] :
          EnableCall(services)
    \/ EnableObserve
    \/ /\ ncalls < MaxCalls
       /\ BagCardinality(calls) < MaxConcurrent
       /\ \E subscription \in hook.observed, operation \in LimiterOperations :
             Publish(subscription, operation)
    \/ \E c \in BagToSet(calls), outcome \in Outcomes, ack_has_id \in BOOLEAN :
          TagWriteCompletes(c, outcome, ack_has_id)
    \/ \E c \in BagToSet(calls) : TagWriteTimesOut(c)
    \/ \E c \in BagToSet(calls) : TagToThreadDone(c)

SpecEnable == InitDefault /\ [][NextEnable]_vars

----------------------------------------------------------------------------
(* _build_metadata and _sanitize_metadata on their own *)

\* _build_metadata(operation), the sets in the order the interpreter picked
BuildStep(operation, techniques, tactics) ==
    /\ last' = Event("_build_metadata", "built", operation, "not_run", operation.id,
                     BuildMetadata(operation, techniques, tactics))
    /\ UNCHANGED <<host_vars, reporter, fetch, failure_count, circuit_open, max_failures,
                   elk_client, tag_semaphore, calls, fallback_files, now, ncalls,
                   index_calls, only_conn_errors>>

\* _sanitize_metadata(metadata)
SanitizeStep(metadata) ==
    /\ last' = Event("_sanitize_metadata", "sanitized", metadata, "not_run", <<>>,
                     SanitizeMetadata(metadata))
    /\ UNCHANGED <<host_vars, reporter, fetch, failure_count, circuit_open, max_failures,
                   elk_client, tag_semaphore, calls, fallback_files, now, ncalls,
                   index_calls, only_conn_errors>>

\* the steps of the action records: two well-formed ones, one that is not,
\* one without technique and tactic
BuilderAbilities ==
    {ValidAccounts, Injected,
     [technique_id |-> <<"T", "1", "0", "5", "9", ".", "0", "0", "1">>,
      tactic |-> <<"e", "x", "e", "c", "u", "t", "i", "o", "n">>,
      name |-> <<"P", "S">>],
     [technique_id |-> <<>>, tactic |-> <<>>, name |-> <<"X">>]}

BuilderOperations ==
    {[OpGood EXCEPT !.chain = chain] :
        chain \in UNION {[1..n -> BuilderAbilities] : n \in 0..MaxChain}}

\* an action record with one step more than the cap of the technique list,
\* each with its own technique id T1000, T1001, ... (as in
\* test_build_metadata_truncates_large_technique_lists) and with one tactic
\* label more than the cap of the tactic tokens
OpManyTechniques ==
    LET digit == <<"0", "1", "2", "3", "4", "5", "6", "7", "8", "9">>
        Step(i) ==
            [technique_id |-> <<"T", "1", digit[(i \div 100) + 1],
                                digit[((i \div 10) % 10) + 1], digit[(i % 10) + 1]>>,
             tactic |-> <<"T", "A", digit[((i % (TAG_TACTIC_CAP + 1)) \div 10) + 1],
                          digit[((i % (TAG_TACTIC_CAP + 1)) % 10) + 1]>>,
             name |-> <<"S">>]
    IN [OpGood EXCEPT !.chain = [i \in 1..(TECHNIQUE_CAP + 1) |-> Step(i - 1)]]

\* two of the orders list(set(xs)) may have: first occurrence, and its reverse
TwoOrders(xs) ==
    LET d == Dedupe(xs) IN {d, [i \in 1..Len(d) |-> d[Len(d) + 1 - i]]}

\* the dictionaries handed to the sanitizer directly: names and client labels
\* with markup, path and control characters and beyond the length limits,
\* technique and tactic lists with malformed entries, and a dictionary
\* without the list keys
SanitizerInputs ==
    LET names == {<<>>, <<"O", "p", " ", "<", "1", ">">>,
                  <<"<", "s", ">", "a", "-", "b", "_", "c", "\n", "<", "/", "s", ">">>,
                  [i \in 1..(2 * NAME_MAX_LEN) |-> IF i % 3 = 0 THEN "<" ELSE "a"]}
        clients == {<<"a", "c", "m", "e">>,
                    <<".", ".", "/", "e", "t", "c", "/", "p", " ", "w">>,
                    [i \in 1..(CLIENT_ID_MAX_LEN + 2) |-> IF i % 2 = 0 THEN "-" ELSE "x"]}
        technique_ids == {T1078, <<"I", "N", "V">>, <<"T", "1", "0", "7", "8", "\n">>,
                          <<"T", "9", "9", "9", "9", ".", "9", "9", "9">>}
        tactic_lists == {<<>>,
                         <<<<"I", "n", "v", "@", "T">>, <<"t", "w", "o", " ", "w">>>>,
                         <<<<"a", "<", "b">>, <<"P", "e", "r">>, <<"a", "<", "b">>>>}
        technique_lists == UNION {[1..n -> technique_ids] : n \in 0..MaxChain}
    IN [operation_name : names, client_id : clients, techniques : technique_lists,
        tactics : tactic_lists]
       \cup [operation_name : names, client_id : clients]

\* The builder and the sanitizer applied to every input, and the sanitizer
\* applied again to what it or the builder returned.
NextBuilder ==
    \/ /\ last.event = "init"
       /\ \E operation \in BuilderOperations :
             \E techniques \in SetOrders(ChainField(operation.chain, "technique_id")),
                tactics \in SetOrders(ChainField(operation.chain, "tactic")) :
                BuildStep(operation, techniques, tactics)
    \/ /\ last.event = "init"
       /\ \E techniques \in TwoOrders(ChainField(OpManyTechniques.chain, "technique_id")),
             tactics \in TwoOrders(ChainField(OpManyTechniques.chain, "tactic")) :
             BuildStep(OpManyTechniques, techniques, tactics)
    \/ /\ last.event = "init"
       /\ \E metadata \in SanitizerInputs : SanitizeStep(metadata)
    \/ /\ last.event \in {"built", "sanitized"}
       /\ SanitizeStep(last.metadata)

SpecBuilder == InitDefault /\ [][NextBuilder]_vars

----------------------------------------------------------------------------
(* The detection fetchers: identifiers and verdicts *)

LowerSeq == <<"a", "b", "c", "d", "e", "f", "g", "h", "i", "j", "k", "l", "m",
              "n", "o", "p", "q", "r", "s", "t", "u", "v", "w", "x", "y", "z">>

UpperSeq == <<"A", "B", "C", "D", "E", "F", "G", "H", "I", "J", "K", "L", "M",
              "N", "O", "P", "Q", "R", "S", "T", "U", "V", "W", "X", "Y", "Z">>

\* str.lower(), one character
ToLowerChar(c) ==
    IF \E i \in 1..Len(UpperSeq) : UpperSeq[i] = c
    THEN LowerSeq[CHOOSE i \in 1..Len(UpperSeq) : UpperSeq[i] = c]
    ELSE c

\* str.lower()
ToLower(s) == [i \in 1..Len(s) |-> ToLowerChar(s[i])]

StartsWith(s, pat) == Len(s) >= Len(pat) /\ SubSeq(s, 1, Len(pat)) = pat

RECURSIVE RemoveAll(_, _)
\* s.replace(pat, '')
RemoveAll(s, pat) ==
    IF s = <<>> THEN <<>>
    ELSE IF StartsWith(s, pat)
         THEN RemoveAll(SubSeq(s, Len(pat) + 1, Len(s)), pat)
         ELSE <<s[1]>> \o RemoveAll(Tail(s), pat)

\* s.strip(chars)
StripChars(s, chars) ==
    LET keep == {i \in 1..Len(s) : s[i] \notin chars}
    IN IF keep = {} THEN <<>>
       ELSE SubSeq(s, CHOOSE i \in keep : \A j \in keep : i <= j,
                      CHOOSE i \in keep : \A j \in keep : i >= j)

HexDigits == Digits \cup {"a", "b", "c", "d", "e", "f", "A", "B", "C", "D", "E", "F"}

\* int(h, 16) accepts h: blanks around, a sign, a 0x prefix, and single
\* underscores between digits (or right after the prefix)
IntBase16Parses(h) ==
    LET t == StripChars(h, SpaceChars)
        u == IF t # <<>> /\ t[1] \in {"+", "-"} THEN Tail(t) ELSE t
        prefixed == Len(u) >= 2 /\ u[1] = "0" /\ u[2] \in {"x", "X"}
        body == IF prefixed THEN SubSeq(u, 3, Len(u)) ELSE u
        digits == IF prefixed /\ body # <<>> /\ body[1] = "_" THEN Tail(body) ELSE body
    IN /\ digits # <<>>
       /\ AllIn(digits, HexDigits \cup {"_"})
       /\ digits[1] # "_"
       /\ digits[Len(digits)] # "_"
       /\ \A i \in 1..(Len(digits) - 1) : ~(digits[i] = "_" /\ digits[i + 1] = "_")

\* uuid.UUID(hex) on a string: whether the constructor returns
UuidParses(hex) ==
    LET h1 == RemoveAll(RemoveAll(hex, <<"u", "r", "n", ":">>),
                        <<"u", "u", "i", "d", ":">>)
        h2 == RemoveAll(StripChars(h1, {"{", "}"}), <<"-">>)
    IN Len(h2) = UUID_HEX_LEN /\ IntBase16Parses(h2)

\* an element of the list handed to the fetcher: a string, None or an integer
StrId(s) == [type |-> "str", value |-> s]

NoneId == [type |-> "none", value |-> <<>>]

IntId == [type |-> "int", value |-> <<>>]

\* what uuid.UUID(op_id) does: returns, or the exception it raises
UuidOutcome(op_id) ==
    IF op_id.type = "none" THEN "TypeError"
    ELSE IF op_id.type = "int" THEN "AttributeError"
    ELSE IF UuidParses(op_id.value) THEN "ok"
    ELSE "ValueError"

\* the validation loop: the ids uuid.UUID accepts; ValueError and
\* AttributeError drop the id
ValidatedIds(operation_ids) ==
    SelectSeq(operation_ids, LAMBDA x : UuidOutcome(x) = "ok")

\* the validation loop catches ValueError and AttributeError only
ValidationRaises(operation_ids) ==
    \E i \in 1..Len(operation_ids) : UuidOutcome(operation_ids[i]) = "TypeError"

DETECTED == <<"d", "e", "t", "e", "c", "t", "e", "d">>

EVADED == <<"e", "v", "a", "d", "e", "d">>

PENDING == <<"p", "e", "n", "d", "i", "n", "g">>

Verdicts == {DETECTED, EVADED, PENDING}

\* the first key in the list decides
StatusOfFirstKey(status_buckets) ==
    IF status_buckets # <<>> /\ ToLower(status_buckets[1]) \in Verdicts
    THEN ToLower(status_buckets[1])
    ELSE PENDING

\* the verdict of a technique bucket: detected > evaded > pending
StatusOf(status_buckets) ==
    IF \E i \in 1..Len(status_buckets) : ToLower(status_buckets[i]) = DETECTED
    THEN DETECTED
    ELSE IF \E i \in 1..Len(status_buckets) : ToLower(status_buckets[i]) = EVADED
         THEN EVADED
         ELSE PENDING

\* a status that is copied from the key without the membership test
ReportingStatusOfAnyKey(status_buckets) ==
    IF status_buckets = <<>> THEN PENDING ELSE ToLower(status_buckets[1])

\* the reporting plugin: the first sub-bucket whose lowered key is one of the
\* three verdicts decides
ReportingStatusOf(status_buckets) ==
    LET hits == {i \in 1..Len(status_buckets) : ToLower(status_buckets[i]) \in Verdicts}
    IN IF hits = {} THEN PENDING
       ELSE ToLower(status_buckets[CHOOSE i \in hits : \A j \in hits : i <= j])

----------------------------------------------------------------------------
(* The detection fetchers: responses and results *)

\* f'{lit}{str(e)[:100]}'
Reason(lit, detail) == [lit |-> lit, detail |-> Take(detail, REASON_DETAIL_MAX_LEN)]

\* a result that is not available and says nothing
UnavailableNoReason(lit, detail) ==
    [available |-> FALSE, reason |-> Reason("", <<>>), techniques |-> <<>>]

\* {'available': False, 'reason': ..., 'techniques': {}}
Unavailable(lit, detail) ==
    [available |-> FALSE, reason |-> Reason(lit, detail), techniques |-> <<>>]

NoRuleFired == [lit |-> "No rule fired"]

\* one technique bucket of the aggregation: its key (when it has one), its
\* document count, the keys of its detection_status sub-buckets (none when the
\* sub-aggregation is absent) and the keys of its rule_names sub-buckets
Bucket(has_key, key, doc_count, statuses, rules) ==
    [has_key |-> has_key, key |-> key, doc_count |-> doc_count,
     statuses |-> statuses, rules |-> rules]

\* the entry of one technique in the result of the debrief fetcher
DetectionEntry(bucket) ==
    LET status == StatusOf(bucket.statuses)
        rule_names == Take(bucket.rules, RULE_NAME_CAP)
    IN [status |-> status,
        rule_name |-> IF rule_names = <<>> THEN NoRuleFired ELSE rule_names[1],
        rule_names |-> rule_names,
        alert_count |-> bucket.doc_count,
        coverage |-> IF status = DETECTED THEN 100 ELSE 0]

RECURSIVE Detections(_)
\* detections[technique_id] = {...}, bucket after bucket: a later bucket with
\* the same key replaces the earlier entry
Detections(buckets) ==
    IF buckets = <<>> THEN <<>>
    ELSE LET b == buckets[Len(buckets)]
         IN (b.key :> DetectionEntry(b))
            @@ Detections(SubSeq(buckets, 1, Len(buckets) - 1))

\* bucket['key'] raises KeyError on a bucket without a key
ParseRaises(response) ==
    \E i \in 1..Len(response.buckets) : ~response.buckets[i].has_key

\* the result of the debrief fetcher for an answered query
Available(response, timestamp) ==
    [available |-> TRUE,
     techniques |-> Detections(response.buckets),
     total_events |-> response.total,
     queried_at |-> timestamp]

\* the entry of one technique in the result of the reporting fetcher
ReportingEntry(bucket) ==
    [status |-> ReportingStatusOf(bucket.statuses), count |-> bucket.doc_count]

RECURSIVE ReportingTechniques(_)
\* buckets without a key, or with an empty one, are skipped
ReportingTechniques(buckets) ==
    IF buckets = <<>> THEN <<>>
    ELSE LET b == buckets[Len(buckets)]
             front == ReportingTechniques(SubSeq(buckets, 1, Len(buckets) - 1))
         IN IF b.has_key /\ b.key # <<>>
            THEN (b.key :> ReportingEntry(b)) @@ front
            ELSE front

RECURSIVE SummaryCount(_, _)
\* summary[status] = count for each by_status bucket of that key: the last one
\* stays, 0 when there is none
SummaryCount(by_status, status) ==
    IF by_status = <<>> THEN 0
    ELSE LET b == by_status[Len(by_status)]
         IN IF ToLower(b.key) = status THEN b.doc_count
            ELSE SummaryCount(SubSeq(by_status, 1, Len(by_status) - 1), status)

\* round(detected / total * 100, 1), in tenths of a percent
CoveragePercent(techniques) ==
    LET total == Cardinality(DOMAIN techniques)
        detected == Cardinality({t \in DOMAIN techniques :
                                    techniques[t].status = DETECTED})
        q == (detected * 1000) \div total
        r == (detected * 1000) % total
    IN IF total = 0 THEN 0
       ELSE IF 2 * r < total THEN q
       ELSE IF 2 * r > total THEN q + 1
       ELSE IF q % 2 = 0 THEN q ELSE q + 1

\* _parse_detection_response
ParseDetectionResponse(response, timestamp) ==
    LET techniques == ReportingTechniques(response.buckets)
    IN [available |-> TRUE,
        total_events |-> response.total,
        techniques |-> techniques,
        summary |-> [detected |-> SummaryCount(response.by_status, DETECTED),
                     evaded |-> SummaryCount(response.by_status, EVADED),
                     pending |-> SummaryCount(response.by_status, PENDING),
                     coverage_percent |-> CoveragePercent(techniques)],
        queried_at |-> timestamp]

\* _empty_detection_data
EmptyDetectionData(lit, detail) ==
    [available |-> FALSE,
     reason |-> Reason(lit, detail),
     total_events |-> 0,
     techniques |-> <<>>,
     summary |-> [detected |-> 0, evaded |-> 0, pending |-> 0,
                  coverage_percent |-> 0]]

----------------------------------------------------------------------------
(* The detection fetchers: inputs *)

\* 32 hexadecimal digits: a UUID, and an identifier the tagger accepts too
UuidHex == [i \in 1..UUID_HEX_LEN |-> IF i % 2 = 1 THEN "a" ELSE "1"]

\* a UUID in braces: uuid.UUID accepts it, the tagger's format does not
BracedUuid == <<"{">> \o UuidHex \o <<"}">>

\* the elements of the id lists: what report code can hand over as an id
FetchIdValues == {StrId(UuidHex), StrId(BracedUuid), StrId(GoodId2), NoneId, IntId}

RECURSIVE SeqsUpTo(_, _)
\* the sequences of at most n elements of S
SeqsUpTo(S, n) ==
    IF n = 0 THEN {<<>>}
    ELSE LET shorter == SeqsUpTo(S, n - 1)
         IN shorter \cup {Append(q, x) : q \in shorter, x \in S}

OperationIdLists == SeqsUpTo(FetchIdValues, MaxIds)

\* the plugin's elk_url setting, and what the orchestrator configuration gives
\* when it is consulted
Configs ==
    [elk_url : BOOLEAN, orchestrator : {"url", "no_url", "import_error"}]

\* _get_elk_config: whether it returns a URL
HasElkUrl(config) == config.elk_url \/ config.orchestrator = "url"

Blocked == <<"b", "l", "o", "c", "k", "e", "d">>

StatusKeys ==
    {DETECTED, <<"D", "E", "T", "E", "C", "T", "E", "D">>, EVADED, <<"E", "v", "a", "d", "e", "d">>,
     PENDING, Blocked}

StatusLists == SeqsUpTo(StatusKeys, MaxStatusBuckets)

T1087 == <<"T", "1", "0", "8", "7">>

RuleName == [lit |-> "Valid Accounts Detection"]

\* the technique buckets of an answer: none; one technique with every list of
\* status keys; a bucket with an empty key; a bucket without a key; a detected
\* technique followed by a bucket of the same key with every list of status
\* keys; two techniques
BucketLists ==
    {<<>>,
     <<Bucket(TRUE, <<>>, 3, <<DETECTED>>, <<>>)>>,
     <<Bucket(FALSE, <<>>, 3, <<>>, <<>>)>>,
     <<Bucket(TRUE, T1078, 5, <<DETECTED>>, <<RuleName>>),
       Bucket(TRUE, T1087, 3, <<EVADED>>, <<>>)>>}
    \cup {<<Bucket(TRUE, T1087, 3, st, <<>>)>> : st \in StatusLists}
    \cup {<<Bucket(TRUE, T1078, 5, <<DETECTED>>, <<RuleName>>),
            Bucket(TRUE, T1078, 3, st, <<>>)>> : st \in StatusLists}

\* the by_status buckets of an answer to the reporting fetcher
ByStatusLists ==
    {<<>>, <<[key |-> DETECTED, doc_count |-> 5], [key |-> EVADED, doc_count |-> 3]>>}

Responses ==
    {EmptyResponse} \cup [total : {8}, buckets : BucketLists, by_status : {<<>>}]

ReportingResponses ==
    [total : {8}, buckets : BucketLists, by_status : ByStatusLists]

\* str(e) of the exception of a failed query
ErrorMessages ==
    {<<>>, <<"r", "e", "f", "u", "s", "e", "d">>, [i \in 1..(REASON_DETAIL_MAX_LEN + 1) |-> "x"]}

----------------------------------------------------------------------------
(* fetch_detection_data_for_operations *)

\* no detection fetch is in progress and no result is waiting for its caller
FetchIdle == fetch.pc = "idle"

\* the call has returned result
Returned(fetcher, ids, validated, created, closed, network, query_ids, result) ==
    [fetcher |-> fetcher, pc |-> "done", ids |-> ids, validated_ids |-> validated,
     created |-> created, closed |-> closed, network |-> network,
     query_ids |-> query_ids, schema |-> NoSchema, query |-> "none",
     response |-> EmptyResponse, pending |-> NoResult, result |-> result,
     raised |-> FALSE]

\* the call has ended by raising to its caller
Raised(fetcher, ids, validated, created, closed, network, query_ids) ==
    [fetcher |-> fetcher, pc |-> "done", ids |-> ids, validated_ids |-> validated,
     created |-> created, closed |-> closed, network |-> network,
     query_ids |-> query_ids, schema |-> NoSchema, query |-> "none",
     response |-> EmptyResponse, pending |-> NoResult, result |-> NoResult,
     raised |-> TRUE]

\* a client that is never closed
CloseSkipped(closed) == closed

\* finally: await es.close()
CloseCalled(closed) == closed + 1

\* the call, up to its first await: validation of the ids, the library and
\* configuration checks, the client, and the request for the index mapping
FetchCall(operation_ids, config, library, create_ok) ==
    /\ FetchIdle
    /\ LET validated == ValidatedIds(operation_ids)
       IN fetch' =
            IF ValidationRaises(operation_ids)
            THEN Raised("debrief", operation_ids, <<>>, 0, 0, 0, <<>>)
            ELSE IF validated = <<>>
            THEN Returned("debrief", operation_ids, validated, 0, 0, 0, <<>>,
                          Unavailable("Invalid operation IDs", <<>>))
            ELSE IF ~library
            THEN Returned("debrief", operation_ids, validated, 0, 0, 0, <<>>,
                          Unavailable("elasticsearch library not installed", <<>>))
            ELSE IF ~HasElkUrl(config)
            THEN Returned("debrief", operation_ids, validated, 0, 0, 0, <<>>,
                          Unavailable("ELK not configured", <<>>))
            ELSE IF ~create_ok
            THEN Raised("debrief", operation_ids, validated, 0, 0, 0, <<>>)
            ELSE [fetcher |-> "debrief", pc |-> "schema", ids |-> operation_ids,
                  validated_ids |-> validated, created |-> 1, closed |-> 0,
                  network |-> 1, query_ids |-> <<>>, schema |-> NoSchema,
                  query |-> "none", response |-> EmptyResponse, pending |-> NoResult,
                  result |-> NoResult, raised |-> FALSE]
    /\ UNCHANGED <<tagger_vars, host_vars, reporter>>

SchemaOutcomes == {"ok", "no_indices", "missing_fields", "error"}

\* required_fields: the three field paths, each from field_mappings or its
\* default, in the order of the dict; a path is the sequence of its
\* dot-separated parts
RequiredFields(field_mappings) ==
    LET names == <<"operation_id", "technique", "detection_status">>
    IN [i \in 1..Len(names) |->
           IF names[i] \in DOMAIN field_mappings THEN field_mappings[names[i]]
           ELSE <<"purple", names[i]>>]

\* _validate_elk_schema on the answer of indices.get_mapping: the outcome it
\* logs and the paths it found missing in the mapping of the first index.
\* properties maps a field name to whether it has nested 'properties' and to
\* the names in them.
ValidateElkSchema(answer, field_mappings) ==
    LET required == RequiredFields(field_mappings)
        properties == answer.indices[1].properties
        IsMissing(path) ==
            IF Len(path) > 1
            THEN IF path[1] \notin DOMAIN properties THEN TRUE
                 ELSE IF properties[path[1]].has_properties
                      THEN ~(Len(path) = 2 /\ path[2] \in properties[path[1]].properties)
                      ELSE FALSE
            ELSE path[1] \notin DOMAIN properties
        missing == SelectSeq(required, IsMissing)
        Logged(outcome, paths) ==
            [outcome |-> outcome, missing |-> paths, indices |-> answer.indices,
             required |-> required]
    IN IF answer.raises THEN Logged("error", <<>>)
       ELSE IF answer.indices = <<>> THEN Logged("no_indices", <<>>)
       ELSE IF ~answer.indices[1].has_mappings THEN Logged("error", <<>>)
       ELSE IF missing # <<>> THEN Logged("missing_fields", missing)
       ELSE Logged("ok", <<>>)

\* a validation whose failures reach the caller
SchemaRaisesOnFailure(validation) == validation.outcome \in {"missing_fields", "error"}

\* whether _validate_elk_schema raises: its except clause logs every
\* exception, the ValueError of the missing fields included
SchemaRaises(validation) == FALSE

\* _validate_elk_schema ends: whatever it found or raised is logged and the
\* query is sent, filtered on the validated ids
FetchSchemaDone(answer, field_mappings) ==
    /\ fetch.pc = "schema"
    /\ LET validation == ValidateElkSchema(answer, field_mappings)
       IN fetch' =
            IF SchemaRaises(validation)
            THEN [fetch EXCEPT !.pc = "closing", !.schema = validation,
                               !.pending = Unavailable("Query failed: ", <<>>),
                               !.closed = CloseCalled(@)]
            ELSE [fetch EXCEPT !.pc = "search", !.network = @ + 1,
                               !.schema = validation,
                               !.query_ids = fetch.validated_ids]
    /\ UNCHANGED <<tagger_vars, host_vars, reporter>>

\* es.search ends, the result is made and the finally clause calls es.close()
FetchSearchDone(outcome, response, message) ==
    /\ fetch.pc = "search"
    /\ LET result ==
             IF outcome = "conn_error"
             THEN Unavailable("Connection failed: ", message)
             ELSE IF outcome = "other_error"
             THEN Unavailable("Query failed: ", message)
             ELSE IF ParseRaises(response)
             THEN Unavailable("Query failed: ", <<"'", "k", "e", "y", "'">>)
             ELSE Available(response, now)
       IN fetch' = [fetch EXCEPT !.pc = "closing", !.query = outcome,
                                 !.response = response, !.pending = result,
                                 !.closed = CloseCalled(@)]
    /\ UNCHANGED <<tagger_vars, host_vars, reporter>>

\* es.close() ends: the result is returned, or the error of close() leaves
\* the finally clause
FetchCloseDone(close_ok) ==
    /\ fetch.pc = "closing"
    /\ fetch' = IF close_ok
                THEN [fetch EXCEPT !.pc = "done", !.result = fetch.pending,
                                   !.pending = NoResult]
                ELSE [fetch EXCEPT !.pc = "done", !.raised = TRUE,
                                   !.pending = NoResult]
    /\ UNCHANGED <<tagger_vars, host_vars, reporter>>

----------------------------------------------------------------------------
(* reporting: ELKFetcher *)

\* ELKFetcher(config, logger): the client is None when the library is absent
\* or creating the client fails; _last_error is reset after the client is made
ReporterConstruct(library, create_ok) ==
    /\ FetchIdle
    /\ reporter' = [constructed |-> TRUE, elk_client |-> library /\ create_ok,
                    connected |-> FALSE, last_error |-> FALSE]
    /\ UNCHANGED <<tagger_vars, host_vars, fetch>>

\* get_detection_data, up to its await
ReportCall(operation_id) ==
    /\ FetchIdle
    /\ reporter.constructed
    /\ IF ~reporter.elk_client
       THEN /\ fetch' = Returned("reporting", <<operation_id>>, <<>>, 0, 0, 0, <<>>,
                                 EmptyDetectionData("ELK client not available", <<>>))
            /\ UNCHANGED reporter
       ELSE IF operation_id.type # "str"
       THEN /\ fetch' = Returned("reporting", <<operation_id>>, <<>>, 0, 0, 0, <<>>,
                                 EmptyDetectionData("Query failed: ",
                                                    <<"T", "y", "p", "e">>))
            /\ reporter' = [reporter EXCEPT !.last_error = TRUE]
       ELSE /\ fetch' = [fetcher |-> "reporting", pc |-> "report_search",
                         ids |-> <<operation_id>>, validated_ids |-> <<>>,
                         created |-> 0, closed |-> 0, network |-> 1,
                         query_ids |-> <<operation_id>>, schema |-> NoSchema,
                         query |-> "none", response |-> EmptyResponse,
                         pending |-> NoResult,
                         result |-> NoResult, raised |-> FALSE]
            /\ UNCHANGED reporter
    /\ UNCHANGED <<tagger_vars, host_vars>>

\* elk_client.search ends
ReportSearchDone(outcome, response, message) ==
    /\ fetch.pc = "report_search"
    /\ IF outcome = "ok"
       THEN /\ reporter' = [reporter EXCEPT !.connected = TRUE]
            /\ fetch' = [fetch EXCEPT !.pc = "done", !.query = outcome,
                            !.response = response,
                            !.result = ParseDetectionResponse(response, now)]
       ELSE IF outcome = "conn_error"
       THEN /\ reporter' = [reporter EXCEPT !.connected = FALSE, !.last_error = TRUE]
            /\ fetch' = [fetch EXCEPT !.pc = "done", !.query = outcome,
                            !.result = EmptyDetectionData("ELK connection failed: ",
                                                          message)]
       ELSE /\ reporter' = [reporter EXCEPT !.last_error = TRUE]
            /\ fetch' = [fetch EXCEPT !.pc = "done", !.query = outcome,
                            !.result = EmptyDetectionData("Query failed: ", message)]
    /\ UNCHANGED <<tagger_vars, host_vars>>

\* the caller takes what the fetch returned or raised, and the next fetch
\* starts from nothing of this one
ResultConsumed ==
    /\ fetch.pc = "done"
    /\ fetch' = NoFetch
    /\ UNCHANGED <<tagger_vars, host_vars, reporter>>

\* the mapping of one index: whether it has the 'mappings' key, and its
\* 'properties'
IndexMapping(has_mappings, properties) ==
    [has_mappings |-> has_mappings, properties |-> properties]

\* the 'properties' of an index: the purple object (absent, without nested
\* properties, or with any of the three fields) and a top-level technique
\* field (absent or present)
PropertyMaps ==
    LET leaf == [has_properties |-> FALSE, properties |-> {}]
        purples == {<<>>, "purple" :> leaf}
                   \cup {"purple" :> [has_properties |-> TRUE, properties |-> fields] :
                           fields \in SUBSET {"operation_id", "technique",
                                              "detection_status"}}
    IN {purple @@ top : purple \in purples, top \in {<<>>, "technique" :> leaf}}

\* the answers of indices.get_mapping: an error, no index, an index without
\* 'mappings', one index, and two indices of which the first is examined
SchemaAnswers ==
    LET complete == "purple" :> [has_properties |-> TRUE,
                                 properties |-> {"operation_id", "technique",
                                                 "detection_status"}]
    IN {[raises |-> TRUE, indices |-> <<>>], [raises |-> FALSE, indices |-> <<>>],
        [raises |-> FALSE, indices |-> <<IndexMapping(FALSE, <<>>)>>],
        [raises |-> FALSE,
         indices |-> <<IndexMapping(TRUE, <<>>), IndexMapping(TRUE, complete)>>]}
       \cup {[raises |-> FALSE, indices |-> <<IndexMapping(TRUE, properties)>>] :
               properties \in PropertyMaps}

\* the answers with one outcome each: an error, no index, every field, none
CommonSchemaAnswers ==
    {answer \in SchemaAnswers :
        \/ answer.indices = <<>>
        \/ /\ Len(answer.indices) = 1
           /\ answer.indices[1].has_mappings
           /\ \/ answer.indices[1].properties = <<>>
              \/ ValidateElkSchema(answer, <<>>).outcome = "ok"
                 /\ DOMAIN answer.indices[1].properties = {"purple"}}

\* config['field_mappings']: absent, a top-level technique field, a technique
\* field two levels down
FieldMappings ==
    {<<>>, "technique" :> <<"technique">>,
     "technique" :> <<"purple", "attack", "technique">>}

\* Detection fetches, one at a time, by either fetcher, with every input and
\* every behaviour of the backend. The two fetchers share no state: the
\* debrief fetcher is explored while no ELKFetcher has been constructed.
NextFetch ==
    \/ /\ reporter = NoReporter
       /\ FetchIdle
       /\ \E ids \in OperationIdLists, config \in Configs, library, create_ok \in BOOLEAN :
             FetchCall(ids, config, library, create_ok)
    \/ /\ fetch.pc = "schema"
       /\ \E answer \in CommonSchemaAnswers : FetchSchemaDone(answer, <<>>)
    \/ /\ fetch.pc = "search"
       /\ \E response \in Responses : FetchSearchDone("ok", response, <<>>)
    \/ /\ fetch.pc = "search"
       /\ \E outcome \in Outcomes \ {"ok"}, message \in ErrorMessages :
             FetchSearchDone(outcome, EmptyResponse, message)
    \/ \E close_ok \in BOOLEAN : FetchCloseDone(close_ok)
    \/ \E library, create_ok \in BOOLEAN : ReporterConstruct(library, create_ok)
    \/ \E operation_id \in FetchIdValues : ReportCall(operation_id)
    \/ /\ fetch.pc = "report_search"
       /\ \E response \in ReportingResponses : ReportSearchDone("ok", response, <<>>)
    \/ /\ fetch.pc = "report_search"
       /\ \E outcome \in Outcomes \ {"ok"}, message \in ErrorMessages :
             ReportSearchDone(outcome, EmptyResponse, message)
    \/ ResultConsumed

\* One fetch after the other by the debrief fetcher on a valid id, with every
\* answer of indices.get_mapping and every field_mappings.
NextSchema ==
    \/ /\ FetchIdle
       /\ FetchCall(<<StrId(UuidHex)>>, [elk_url |-> TRUE, orchestrator |-> "url"],
                    TRUE, TRUE)
    \/ /\ fetch.pc = "schema"
       /\ \E answer \in SchemaAnswers, field_mappings \in FieldMappings :
             FetchSchemaDone(answer, field_mappings)
    \/ /\ fetch.pc = "search"
       /\ \E response \in {EmptyResponse,
                            [total |-> 8, by_status |-> <<>>,
                             buckets |-> <<Bucket(TRUE, T1078, 5, <<DETECTED>>, <<RuleName>>)>>]} :
             FetchSearchDone("ok", response, <<>>)
    \/ /\ fetch.pc = "search"
       /\ \E outcome \in Outcomes \ {"ok"} :
             FetchSearchDone(outcome, EmptyResponse, <<"r", "e", "f", "u", "s", "e", "d">>)
    \/ FetchCloseDone(TRUE)
    \/ ResultConsumed

SpecSchema == InitDefault /\ [][NextSchema]_vars

SpecFetch == InitDefault /\ [][NextFetch]_vars

----------------------------------------------------------------------------
(* ReportService and PDFGenerator.generate *)

\* data_svc: the operations known to the host, by id
DataOperations ==
    [a |-> [id |-> "a", state |-> "finished"],
     b |-> [id |-> "b", state |-> "finished"],
     r |-> [id |-> "r", state |-> "running"]]

\* the operation ids of requests and events: known ones, an unknown one, and
\* a missing one
RequestIds == {"a", "b", "r", "x", ""}

\* data_svc.locate('operations', match=dict(id=operation_id))
Locate(operation_id) ==
    IF operation_id \in DOMAIN DataOperations
    THEN <<DataOperations[operation_id]>> ELSE <<>>

\* a duplicate test that never finds the id
IsActiveNever(operation_id, active) == FALSE

\* operation_id in self._active_reports
IsActive(operation_id, active) == operation_id \in active

\* a clean-up that leaves the id in the set
DiscardNothing(active, operation_id) == active

\* self._active_reports.discard(operation_id)
Discard(active, operation_id) == active \ {operation_id}

\* a generate() that does not look at the state of the operation
GenerateAnyState(operation) ==
    IF operation.is_none \/ ~operation.has_id THEN "raise" ELSE "scheduled"

\* PDFGenerator.generate before its await: ValueError for no operation or one
\* without id, None for an operation that is not finished, otherwise the
\* rendering is handed to the executor
Generate(operation) ==
    IF operation.is_none \/ ~operation.has_id THEN "raise"
    ELSE IF operation.state # "finished" THEN "none"
    ELSE "scheduled"

\* the operation objects handed to generate()
AsOperation(found) ==
    [is_none |-> FALSE, has_id |-> TRUE, id |-> found.id, state |-> found.state]

\* the JSON answer of generate_report_api (the event handler returns None:
\* status 0, with what it did in result)
Answer(request, status, result) ==
    [n |-> request.n, via |-> request.via, id |-> request.id, status |-> status,
     result |-> result]

Request(via, operation_id) ==
    [n |-> reports.made + 1, via |-> via, id |-> operation_id, pc |-> "locate"]

\* the requests for which a generation is in progress
Generating == {request \in reports.requests : request.pc \in {"elk", "render"}}

\* POST /plugin/reporting/generate up to `await self.data_svc.locate`
ApiCall(operation_id) ==
    /\ reports' =
          IF operation_id = ""
          THEN [reports EXCEPT
                   !.made = @ + 1,
                   !.answer = Answer(Request("api", operation_id), 400,
                                     "operation_id required")]
          ELSE [reports EXCEPT
                   !.made = @ + 1,
                   !.requests = @ \cup {Request("api", operation_id)},
                   !.answer = [via |-> "none"]]
    /\ UNCHANGED <<tagger_vars, hook, reporter, fetch>>

\* the operation.completed event reaches on_operation_completed(op=...)
EventCall(operation_id) ==
    /\ reports' =
          IF operation_id = ""
          THEN [reports EXCEPT
                   !.made = @ + 1,
                   !.answer = Answer(Request("event", operation_id), 0,
                                     "missing id")]
          ELSE [reports EXCEPT
                   !.made = @ + 1,
                   !.requests = @ \cup {Request("event", operation_id)},
                   !.answer = [via |-> "none"]]
    /\ UNCHANGED <<tagger_vars, hook, reporter, fetch>>

\* the handler ends: its request is gone and its answer is given
Ends(request, status, result) ==
    [reports EXCEPT !.requests = @ \ {request},
                    !.answer = Answer(request, status, result)]

\* pdf_generator.generate(operation, detection_data) is called: the request
\* waits for the rendering, or generate() returned at once and the finally
\* clause has removed the id
Generates(request, operation, state_now) ==
    LET outcome == Generate([operation EXCEPT !.state = state_now])
        waiting == [request EXCEPT !.pc = "render"]
    IN IF outcome = "scheduled"
       THEN [reports EXCEPT !.requests = (@ \ {request}) \cup {waiting},
                            !.renderings = Count(@),
                            !.active = @ \cup {request.id},
                            !.answer = [via |-> "none"]]
       ELSE [Ends(request, IF request.via = "api" THEN 500 ELSE 0,
                  "PDF generation returned None")
                EXCEPT !.active = Discard(@ \cup {request.id}, request.id)]

\* locate() has answered: not found, not finished and duplicate requests end
\* here; otherwise the id is added to the active set and the detection data
\* is fetched (self.elk_fetcher is the ELKFetcher made in __init__), or
\* without a fetcher generate() is called
LocateDone(request) ==
    /\ request \in reports.requests
    /\ request.pc = "locate"
    /\ LET operations == Locate(request.id)
           api == request.via = "api"
       IN reports' =
             IF operations = <<>>
             THEN Ends(request, IF api THEN 404 ELSE 0, "not found")
             ELSE IF operations[1].state # "finished"
             THEN Ends(request, IF api THEN 400 ELSE 0, "not finished")
             ELSE IF IsActive(request.id, reports.active)
             THEN Ends(request, IF api THEN 409 ELSE 0, "already in progress")
             ELSE IF reporter.constructed
             THEN [reports EXCEPT
                      !.active = @ \cup {request.id},
                      !.requests = (@ \ {request})
                                      \cup {[request EXCEPT !.pc = "elk"]},
                      !.answer = [via |-> "none"]]
             ELSE Generates(request, AsOperation(operations[1]),
                            operations[1].state)
    /\ UNCHANGED <<tagger_vars, hook, reporter, fetch>>

\* get_detection_data has returned or raised (the error is logged and kept as
\* an unavailable result), and generate() is called
DetectionDone(request) ==
    /\ request \in reports.requests
    /\ request.pc = "elk"
    /\ LET operation == DataOperations[request.id] IN
       reports' = Generates(request, AsOperation(operation), operation.state)
    /\ UNCHANGED <<tagger_vars, hook, reporter, fetch>>

\* how the wait for the rendering ends: a path ("pdf"), an error inside the
\* rendering (generate() returns None), the timeout of wait_for (raised
\* again), or an error of the handler after the path was returned
RenderOutcomes == {"pdf", "render_error", "timeout", "handler_error"}

\* the wait for the rendering ends, and the finally clause removes the id
RenderDone(request, outcome) ==
    /\ request \in reports.requests
    /\ request.pc = "render"
    /\ request.via # "direct"
    /\ LET api == request.via = "api"
           status == CASE ~api -> 0
                       [] outcome = "pdf" -> 200
                       [] outcome = "timeout" -> 504
                       [] OTHER -> 500
       IN reports' = [Ends(request, status, outcome)
                        EXCEPT !.active = Discard(@, request.id)]
    /\ UNCHANGED <<tagger_vars, hook, reporter, fetch>>

\* the operations of the generator's own tests
DirectOperations ==
    {[is_none |-> FALSE, has_id |-> TRUE, id |-> "a", state |-> "finished"],
     [is_none |-> FALSE, has_id |-> TRUE, id |-> "r", state |-> "running"],
     [is_none |-> FALSE, has_id |-> TRUE, id |-> "c", state |-> "cleanup"],
     [is_none |-> TRUE, has_id |-> FALSE, id |-> "", state |-> "none"]}

\* a caller awaits PDFGenerator.generate(operation) itself
GenerateCall(operation) ==
    /\ LET request == [Request("direct", operation.id) EXCEPT !.pc = "render"]
           outcome == Generate(operation)
       IN reports' =
             IF outcome = "scheduled"
             THEN [reports EXCEPT !.made = @ + 1,
                                  !.requests = @ \cup {request},
                                  !.renderings = Count(@),
                                  !.answer = [via |-> "none"]]
             ELSE [reports EXCEPT !.made = @ + 1,
                                  !.answer = Answer(request, 0, outcome)]
    /\ UNCHANGED <<tagger_vars, hook, reporter, fetch>>

\* the rendering of a direct call ends
GenerateDone(request, outcome) ==
    /\ request \in reports.requests
    /\ request.pc = "render"
    /\ request.via = "direct"
    /\ reports' = Ends(request, 0, outcome)
    /\ UNCHANGED <<tagger_vars, hook, reporter, fetch>>

\* The service with an ELK fetcher (made in __init__) or without one; REST
\* requests and completion events in any order and at any time.
NextReports ==
    \/ /\ reports.made = 0
       /\ reporter = NoReporter
       /\ \E library \in BOOLEAN : ReporterConstruct(library, TRUE)
    \/ /\ reports.made < MaxReportCalls
       /\ \E operation_id \in RequestIds : ApiCall(operation_id)
    \/ /\ reports.made < MaxReportCalls
       /\ \E operation_id \in RequestIds : EventCall(operation_id)
    \/ \E request \in reports.requests : LocateDone(request)
    \/ \E request \in reports.requests : DetectionDone(request)
    \/ \E request \in reports.requests, outcome \in RenderOutcomes :
          RenderDone(request, outcome)

SpecReports == InitDefault /\ [][NextReports]_vars

\* Requests and events for a finished and a running operation, without an ELK
\* fetcher, and callers of PDFGenerator.generate itself.
NextGenerate ==
    \/ /\ reports.made < MaxReportCalls
       /\ \E operation_id \in {"a", "r"} : ApiCall(operation_id)
    \/ /\ reports.made < MaxReportCalls
       /\ \E operation_id \in {"a", "r"} : EventCall(operation_id)
    \/ \E request \in reports.requests : LocateDone(request)
    \/ \E request \in reports.requests, outcome \in {"pdf", "timeout"} :
          RenderDone(request, outcome)
    \/ /\ reports.made < MaxReportCalls
       /\ \E operation \in DirectOperations : GenerateCall(operation)
    \/ \E request \in reports.requests, outcome \in {"pdf", "render_error"} :
          GenerateDone(request, outcome)

SpecGenerate == InitDefault /\ [][NextGenerate]_vars

----------------------------------------------------------------------------
(* Properties *)

\* C1: with a client whose every write ends in a connection/transport error,
\* and calls made one after the other, the writes issued are one per call up
\* to max_failures and none after: once max_failures calls have returned the
\* breaker is open, and the write count stays at max_failures.
C1_BreakerOpensAndBlocks ==
    (elk_client /\ only_conn_errors) =>
        /\ index_calls <= max_failures
        /\ calls = EmptyBag =>
              /\ index_calls = Min(ncalls, max_failures)
              /\ ncalls >= max_failures => circuit_open

\* the default threshold: five failed calls, then a sixth that is not sent
C1_Witness ==
    /\ elk_client
    /\ only_conn_errors
    /\ max_failures = DEFAULT_MAX_FAILURES
    /\ calls = EmptyBag
    /\ ncalls = max_failures + 1
    /\ circuit_open
    /\ index_calls = max_failures
    /\ last.op = "tag"
    /\ last.event = "fallback_returned"

\* C2: every tag() call that ends on the fallback path leaves one file named
\* fallback_{timestamp}_{first 8 characters of the operation id}.json that
\* holds the sanitized document.
C2_FallbackFilePerFailedTag ==
    [][(last'.op = "tag" /\ last'.event = "fallback_returned") =>
          \E c \in InStage("to_thread") :
             /\ c.op = "tag"
             /\ c.arg.id = last'.id
             /\ fallback_files' = WriteFallback(fallback_files, c.metadata, now)
             /\ FallbackName("fallback_", now, c.arg.id) \in DOMAIN fallback_files']_vars

\* C3: no call of tag() or tag_link() ends by raising to its caller.
C3_NeverRaises == last.value # "raise"

\* C4: a tag() call whose identifier does not match ^[a-zA-Z0-9\-]{8,64}$
\* returns none at once: no write is issued, no file is written, the breaker
\* is left as it was and no call stays in progress.
C4_InvalidIdIsNoOp ==
    [][(/\ last'.op = "tag"
        /\ last'.event # "waiting"
        /\ ~\E s \in DollarCandidates(last'.id) : IdBodyMatches(s)) =>
          /\ last'.value = "none"
          /\ calls' = calls
          /\ UNCHANGED <<index_calls, fallback_files, failure_count, circuit_open>>]_vars

\* an identifier with a forbidden character, after the breaker has counted failures
C4_Witness ==
    /\ last.op = "tag"
    /\ last.event = "bad_id"
    /\ last.id = BadCharId
    /\ failure_count > 0
    /\ index_calls > 0

\* C5: at most five calls hold a slot of the limiter, so at most five backend
\* writes or fallback steps are in flight.
C5_AtMostFiveInFlight ==
    /\ NumPastLimiter <= SEMAPHORE_SLOTS
    /\ NumPosting + NumInStage("to_thread") <= SEMAPHORE_SLOTS

\* five calls hold the slots and two more are queued
C5_Witness ==
    /\ NumPastLimiter = SEMAPHORE_SLOTS
    /\ NumWaiting = 2

\* C6: the free slots are the five slots less the calls that hold one; with no
\* call in progress all five are free.
C6_SlotsReleased ==
    /\ tag_semaphore = SEMAPHORE_SLOTS - NumPastLimiter
    /\ calls = EmptyBag => tag_semaphore = SEMAPHORE_SLOTS

\* a queued call was admitted and ended by raising: its slot is free again
\* while four calls hold theirs and another caller is still queued
C6_Witness ==
    /\ last.value = "raise"
    /\ NumPastLimiter = SEMAPHORE_SLOTS - 1
    /\ NumWaiting = 1
    /\ tag_semaphore = 1

\* C7: every call in progress returns, whether or not the backend answers, so
\* the queued callers are admitted and return too.
C7_EveryCallReturns == (calls # EmptyBag) ~> (calls = EmptyBag)

\* five writes of tag() are in flight and a sixth caller is queued
C7_Witness ==
    /\ NumPosting = SEMAPHORE_SLOTS
    /\ NumWaiting = 1
    /\ \A c \in BagToSet(calls) : c.op = "tag"

\* C8: a write that hits the hard timeout counts as a failure for the breaker.
C8_TimeoutCountsAsFailure ==
    [][last'.event = "write_timeout" =>
          /\ failure_count' = failure_count + 1
          /\ failure_count' >= max_failures => circuit_open']_vars

\* C9: a successful write resets the breaker, a connection/transport failure
\* adds exactly one to failure_count, and the breaker opens only on a failure
\* that brings failure_count to max_failures.
C9_ConsecutiveFailuresOnly ==
    [][/\ last'.event \in {"write_ok", "write_ok_log_error"} =>
             (failure_count' = 0 /\ ~circuit_open')
       /\ last'.event = "write_conn_error" =>
             failure_count' = failure_count + 1
       /\ (~circuit_open /\ circuit_open') =>
             (last'.event = "write_conn_error" /\ failure_count' >= max_failures)
       /\ (failure_count' # failure_count) =>
             last'.event \in {"write_ok", "write_ok_log_error", "write_conn_error"}]_vars

\* the breaker opens on the fifth failure in a row, after an earlier write
\* that was not among them
C9_Witness ==
    /\ last.event = "write_conn_error"
    /\ circuit_open
    /\ failure_count = max_failures
    /\ NumPosting = 0
    /\ index_calls > max_failures

\* C10 as claimed: an open breaker closes again, through a probe send, when
\* callers keep tagging and the backend accepts writes.
C10_OpenBreakerCloses == circuit_open ~> ~circuit_open

\* C10 as the code has it: while the breaker is open no call that starts
\* issues a write, and once no write is in flight the breaker stays open.
C10_OpenBreakerStaysOpen ==
    [][circuit_open =>
          /\ NumPosting' <= NumPosting
          /\ NumPosting = 0 => (circuit_open' /\ NumPosting' = 0)]_vars

\* a call made while the breaker is open was diverted to the fallback step
C10_Witness ==
    /\ circuit_open
    /\ NumPosting = 0
    /\ last.event = "write_skipped"
    /\ elk_client

\* the documents handed to the backend (writes in flight) or written to a
\* fallback file
Documents ==
    {c.metadata : c \in InStage("posting")}
    \cup {fallback_files[n] : n \in DOMAIN fallback_files}

SeqRange(xs) == {xs[i] : i \in 1..Len(xs)}

\* the technique identifiers a document carries, in any field but the tags
DocTechniques(d) ==
    (IF d.kind = "operation"
     THEN SeqRange(d.techniques) \cup SeqRange(d.purple.techniques)
          \cup {d.purple.technique}
     ELSE {d.technique, d.purple.technique}) \ {<<>>}

\* the tactic labels a document carries, in any field but the tags
DocTactics(d) ==
    (IF d.kind = "operation"
     THEN SeqRange(d.tactics) \cup SeqRange(d.purple.tactics) \cup {d.purple.tactic}
     ELSE {d.tactic, d.purple.tactic}) \ {<<>>}

\* the technique ids and tactic labels inside the tag tokens purple_X
DocTagged(d) ==
    {d.tags[i].of : i \in {j \in 1..Len(d.tags) : d.tags[j].lit = "purple_"}}

\* C11: no document handed to the backend or written to a fallback file
\* carries, in any field or tag token, a technique identifier outside
\* ^T\d{4}(\.\d{3})?$ or a tactic label that is not alphanumeric+whitespace.
C11_OnlyWellFormedTechniques ==
    \A d \in Documents :
       /\ \A t \in DocTechniques(d) : IsTechniqueId(t)
       /\ \A t \in DocTactics(d) : IsTactic(t)
       /\ \A t \in DocTagged(d) : IsTechniqueId(t) \/ IsTactic(t)

\* C12: no backend write, fallback file or backend query references an
\* operation or link identifier outside ^[a-zA-Z0-9\-]{8,64}$.
C12_OnlyWellFormedIds ==
    /\ \A d \in Documents :
          /\ IsValidOperationId(d.operation_id)
          /\ d.kind = "link" => IsValidOperationId(d.link_id)
    /\ \A i \in 1..Len(fetch.query_ids) :
          /\ fetch.query_ids[i].type = "str"
          /\ IsValidOperationId(fetch.query_ids[i].value)

\* a fetch has returned a result with available = true
Answered(fetcher) ==
    /\ fetch.fetcher = fetcher
    /\ fetch.pc = "done"
    /\ ~fetch.raised
    /\ fetch.result # NoResult
    /\ fetch.result.available

\* the technique buckets of the answer that decide an entry of the result:
\* those with a non-empty key that no later bucket repeats
Deciding(buckets) ==
    {i \in 1..Len(buckets) :
        /\ buckets[i].has_key
        /\ buckets[i].key # <<>>
        /\ \A j \in (i + 1)..Len(buckets) : buckets[j].key # buckets[i].key}

\* the status keys of a bucket, lowered
LoweredKeys(bucket) == {ToLower(bucket.statuses[i]) : i \in 1..Len(bucket.statuses)}

\* detected if any key is 'detected', else evaded if any is 'evaded', else
\* pending
ByPrecedence(bucket) ==
    IF DETECTED \in LoweredKeys(bucket) THEN DETECTED
    ELSE IF EVADED \in LoweredKeys(bucket) THEN EVADED
    ELSE PENDING

\* C13: in every result of fetch_detection_data_for_operations, whatever the
\* set and order of the status sub-bucket keys of a technique bucket, the
\* verdict of the technique is 'detected' if any key equals 'detected'
\* case-insensitively, else 'evaded' if any key equals 'evaded', else
\* 'pending'.
C13_DebriefPrecedence ==
    Answered("debrief") =>
        \A i \in Deciding(fetch.response.buckets) :
           LET bucket == fetch.response.buckets[i]
           IN fetch.result.techniques[bucket.key].status = ByPrecedence(bucket)

\* an 'Evaded' sub-bucket followed by a 'DETECTED' one: detected
C13_Witness ==
    /\ Answered("debrief")
    /\ fetch.response.buckets =
          <<Bucket(TRUE, T1087, 3,
                   <<<<"E", "v", "a", "d", "e", "d">>,
                     <<"D", "E", "T", "E", "C", "T", "E", "D">>>>, <<>>)>>
    /\ fetch.result.techniques[T1087].status = DETECTED

\* C14: in every result of the reporting fetcher the verdict of a technique
\* follows detected > evaded > pending for every order of the status
\* sub-buckets: 'evaded' and 'detected' in either order give 'detected'.
C14_ReportingPrecedence ==
    Answered("reporting") =>
        \A i \in Deciding(fetch.response.buckets) :
           LET bucket == fetch.response.buckets[i]
           IN fetch.result.techniques[bucket.key].status = ByPrecedence(bucket)

\* C15: every verdict in every result of either fetcher is one of 'detected',
\* 'evaded', 'pending', and a technique bucket with no status sub-bucket or
\* with unrecognized status keys only gets 'pending'.
C15_VerdictsAreThree ==
    (Answered("debrief") \/ Answered("reporting")) =>
        /\ \A t \in DOMAIN fetch.result.techniques :
              fetch.result.techniques[t].status \in Verdicts
        /\ \A i \in Deciding(fetch.response.buckets) :
              LET bucket == fetch.response.buckets[i]
              IN LoweredKeys(bucket) \cap Verdicts = {} =>
                    fetch.result.techniques[bucket.key].status = PENDING

\* a technique whose only status key is 'blocked' is pending
C15_Witness ==
    /\ Answered("reporting")
    /\ fetch.response.buckets = <<Bucket(TRUE, T1087, 3, <<Blocked>>, <<>>)>>
    /\ fetch.result.techniques[T1087].status = PENDING

\* the ids of a list that are strings in the identifier format
\* ^[a-zA-Z0-9\-]{8,64}$
ValidatedByFormat(operation_ids) ==
    SelectSeq(operation_ids,
              LAMBDA x : x.type = "str" /\ IsValidOperationId(x.value))

InvalidOperationIds == Unavailable("Invalid operation IDs", <<>>)

\* C16: fetch_detection_data_for_operations called with a list in which no id
\* is valid (the empty list included) returns available = false with reason
\* 'Invalid operation IDs' and an empty technique map, and neither creates a
\* backend client nor makes a network call.
C16_NoValidIdNoQuery ==
    (fetch.fetcher = "debrief" /\ ValidatedByFormat(fetch.ids) = <<>>) =>
        /\ fetch.pc = "done"
        /\ ~fetch.raised
        /\ fetch.result = InvalidOperationIds
        /\ fetch.created = 0
        /\ fetch.network = 0

\* C17: fetch_detection_data_for_operations keeps exactly the ids in the
\* identifier format ^[a-zA-Z0-9\-]{8,64}$ and drops the others: every id
\* tag() accepts is kept and is in the id filter of the query, and the call
\* fails with 'Invalid operation IDs' only if no id remains.
C17_KeepsIdsInFormat ==
    (fetch.fetcher = "debrief" /\ ~fetch.raised) =>
        /\ fetch.validated_ids = ValidatedByFormat(fetch.ids)
        /\ fetch.pc \in {"search", "closing"} =>
              fetch.query_ids = ValidatedByFormat(fetch.ids)
        /\ fetch.pc = "done" =>
              (fetch.result = InvalidOperationIds
                  <=> ValidatedByFormat(fetch.ids) = <<>>)

\* C18: whatever the list of ids and whatever the backend does (library
\* absent, no URL, an error creating the client, in schema validation, in the
\* query or in closing the client), a detection fetch ends by returning a
\* result with available true or false, never by raising to its caller.
C18_FetchNeverRaises ==
    fetch.pc = "done" =>
        /\ ~fetch.raised
        /\ fetch.result # NoResult
        /\ fetch.result.available \in BOOLEAN

\* C19: a call of fetch_detection_data_for_operations that creates a backend
\* client closes it exactly once, after the query and before the call ends,
\* whether the query succeeds, fails with a connection/transport error or
\* fails with any other error.
C19_ClientClosedOnce ==
    fetch.fetcher = "debrief" =>
        /\ fetch.created <= 1
        /\ fetch.pc \in {"schema", "search"} => (fetch.created = 1 /\ fetch.closed = 0)
        /\ fetch.pc \in {"closing", "done"} => fetch.closed = fetch.created

\* a query that failed with a connection error, its client closed
C19_Witness ==
    /\ fetch.fetcher = "debrief"
    /\ fetch.pc = "done"
    /\ ~fetch.raised
    /\ fetch.result # NoResult
    /\ ~fetch.result.available
    /\ fetch.result.reason.lit = "Connection failed: "
    /\ fetch.created = 1
    /\ fetch.closed = 1

\* C20: every result with available = false carries a non-empty reason and an
\* empty technique mapping; every result with available = true carries a
\* technique mapping, an event total and a query timestamp.
C20_ResultShapes ==
    (fetch.pc = "done" /\ ~fetch.raised) =>
        IF fetch.result.available
        THEN {"techniques", "total_events", "queried_at"} \subseteq DOMAIN fetch.result
        ELSE /\ fetch.result.reason.lit # "" \/ fetch.result.reason.detail # <<>>
             /\ fetch.result.techniques = <<>>

\* a query that failed with an error of more than 100 characters: the reason
\* holds the first 100
C20_Witness ==
    /\ fetch.fetcher = "debrief"
    /\ fetch.pc = "done"
    /\ ~fetch.raised
    /\ fetch.result # NoResult
    /\ ~fetch.result.available
    /\ fetch.result.reason.lit = "Query failed: "
    /\ Len(fetch.result.reason.detail) = REASON_DETAIL_MAX_LEN
    /\ fetch.result.techniques = <<>>

AbsentPaths(properties, required) ==
    LET Absent(path) ==
            IF Len(path) = 1 THEN path[1] \notin DOMAIN properties
            ELSE \/ path[1] \notin DOMAIN properties
                 \/ path[2] \notin properties[path[1]].properties
    IN SelectSeq(required, Absent)

\* C22: schema validation collects every required field path absent from the
\* mapping of the first matching index: parent.child whenever the parent is
\* absent or has no mapping for the child (a parent without nested properties
\* included), and a top-level path when absent; it fails exactly when some
\* path is missing.
C22_EveryMissingPathCollected ==
    (/\ fetch.schema.outcome \in {"ok", "missing_fields"}
     /\ \A i \in 1..Len(fetch.schema.required) : Len(fetch.schema.required[i]) <= 2) =>
        /\ fetch.schema.missing =
              AbsentPaths(fetch.schema.indices[1].properties, fetch.schema.required)
        /\ fetch.schema.outcome = "missing_fields" <=> fetch.schema.missing # <<>>

\* the non-empty values of one field on the steps of an action record
StepValues(operation, field) ==
    {operation.chain[i][field] : i \in 1..Len(operation.chain)} \ {<<>>}

NoRepeats(xs) == \A i, j \in 1..Len(xs) : i # j => xs[i] # xs[j]

\* C23: for every action record whose steps carry more than 500 distinct
\* technique ids, the technique list of the built document has exactly 500
\* entries and the document carries a separate total field equal to the
\* number of distinct ids before truncation.
C23_TotalBeforeTruncation ==
    (/\ last.event = "built"
     /\ Cardinality(StepValues(last.value, "technique_id")) > TECHNIQUE_CAP) =>
        /\ Len(last.metadata.techniques) = TECHNIQUE_CAP
        /\ \/ /\ "technique_count_total" \in DOMAIN last.metadata
              /\ last.metadata.technique_count_total
                    = Cardinality(StepValues(last.value, "technique_id"))
           \/ last.metadata.purple.technique_count
                 = Cardinality(StepValues(last.value, "technique_id"))

\* C24: for every sequence of steps, each technique id and each tactic label
\* occurs at most once in the technique and tactic lists of the built
\* document, and the lists hold exactly the distinct non-empty values found
\* on the steps (the techniques when they are not more than the cap).
C24_EachValueOnce ==
    last.event = "built" =>
        /\ NoRepeats(last.metadata.techniques)
        /\ NoRepeats(last.metadata.tactics)
        /\ SeqRange(last.metadata.techniques) \subseteq StepValues(last.value, "technique_id")
        /\ Cardinality(StepValues(last.value, "technique_id")) <= TECHNIQUE_CAP =>
              SeqRange(last.metadata.techniques) = StepValues(last.value, "technique_id")
        /\ SeqRange(last.metadata.tactics) = StepValues(last.value, "tactic")

\* three steps, two of them with the same technique and tactic: two entries
C24_Witness ==
    /\ last.event = "built"
    /\ Len(last.value.chain) = 3
    /\ last.value.chain[1] = ValidAccounts
    /\ last.value.chain[3] = ValidAccounts
    /\ Len(last.metadata.techniques) = 2
    /\ Len(last.metadata.tactics) = 2

\* C25: in every built document the tag tokens are the constant tokens, then
\* one token purple_X for each of the first 50 techniques at most, then one
\* for each of the first 20 tactics at most, each exactly once for the
\* technique or tactic it is derived from.
C25_TagTokens ==
    last.event = "built" =>
        LET tags == last.metadata.tags
            nc == Len(ConstantTags)
            nt == Len(last.metadata.techniques)
            na == Len(last.metadata.tactics)
            kt == IF nt < TAG_TECHNIQUE_CAP THEN nt ELSE TAG_TECHNIQUE_CAP
            ka == IF na < TAG_TACTIC_CAP THEN na ELSE TAG_TACTIC_CAP
        IN /\ Len(tags) = nc + kt + ka
           /\ SubSeq(tags, 1, nc) = ConstantTags
           /\ \A i \in 1..kt :
                 tags[nc + i] = [lit |-> "purple_", of |-> last.metadata.techniques[i]]
           /\ \A i \in 1..ka :
                 tags[nc + kt + i] = [lit |-> "purple_", of |-> last.metadata.tactics[i]]
           /\ NoRepeats(SubSeq(tags, nc + 1, nc + kt))
           /\ NoRepeats(SubSeq(tags, nc + kt + 1, nc + kt + ka))

\* 501 techniques and 21 tactics: 50 and 20 tokens after the constant ones
C25_Witness ==
    /\ last.event = "built"
    /\ Len(last.metadata.techniques) = TECHNIQUE_CAP
    /\ Len(last.metadata.tactics) = TAG_TACTIC_CAP + 1
    /\ Len(last.metadata.tags) = Len(ConstantTags) + TAG_TECHNIQUE_CAP + TAG_TACTIC_CAP

C27_NamesStripped ==
    last.event = "sanitized" =>
        /\ "operation_name" \in DOMAIN last.metadata =>
              /\ \A i \in 1..Len(last.metadata.operation_name) :
                    /\ last.metadata.operation_name[i] \notin {"<", ">"}
                    /\ last.metadata.operation_name[i]
                          \in WordChars \cup SpaceChars \cup {"-"}
              /\ Len(last.metadata.operation_name) <= NAME_MAX_LEN
        /\ "client_id" \in DOMAIN last.metadata =>
              /\ \A i \in 1..Len(last.metadata.client_id) :
                    last.metadata.client_id[i] \in WordChars \cup {"-"}
              /\ Len(last.metadata.client_id) <= CLIENT_ID_MAX_LEN

\* a name of 400 characters with markup and a label of 102: cut to 200 and 100
C27_Witness ==
    /\ last.event = "sanitized"
    /\ Len(last.value.operation_name) = 2 * NAME_MAX_LEN
    /\ Len(last.metadata.operation_name) = NAME_MAX_LEN
    /\ Len(last.value.client_id) > CLIENT_ID_MAX_LEN
    /\ Len(last.metadata.client_id) = CLIENT_ID_MAX_LEN

\* C28: the sanitizer is idempotent: applied to what it returned, it returns
\* the same dictionary.
C28_SanitizerIdempotent ==
    last.event = "sanitized" => SanitizeMetadata(last.metadata) = last.metadata

\* a built document, sanitized, and sanitized again
C28_Witness ==
    /\ last.event = "sanitized"
    /\ last.value = last.metadata
    /\ last.value.kind = "operation"
    /\ last.value.operation_name = <<"O", "p", " ", "1">>
    /\ last.value.purple.operation_name = <<"O", "p", " ", "<", "1", ">">>

\* C29: a fallback document, once written, is never overwritten or changed by
\* a later tag() or tag_link() call: every file keeps its name and content,
\* and a fallback step that reports a written file has added a new file.
C29_FallbackFilesNeverOverwritten ==
    [][/\ \A name \in DOMAIN fallback_files :
             /\ name \in DOMAIN fallback_files'
             /\ fallback_files'[name] = fallback_files[name]
       /\ last'.fallback = "written" =>
             Cardinality(DOMAIN fallback_files')
                = Cardinality(DOMAIN fallback_files) + 1]_vars

C31_OutputFailureDegrades ==
    [][\A arg \in OutputLinkArgs, disk_ok \in BOOLEAN :
          (/\ LinkCall(arg, disk_ok)
           /\ arg.link.output \notin {"absent", "ok"}
           /\ LinkValidate(arg.link) = "ok"
           /\ ~arg.operation.is_none)
          => /\ last'.metadata # NoMetadata
             /\ last'.metadata.purple.output.has_output = "false"
             /\ \/ /\ last'.event = "write_issued"
                   /\ index_calls' = index_calls + 1
                   /\ \E c \in BagToSet(calls') :
                         c.stage = "posting" /\ c.metadata = last'.metadata
                \/ /\ last'.event = "write_skipped"
                   /\ last'.fallback = IF disk_ok THEN "written" ELSE "failed"
                   /\ disk_ok => \E name \in DOMAIN fallback_files' :
                                    fallback_files'[name] = last'.metadata]_vars

\* a step whose result file could not be parsed, written to the fallback file
\* after the backend refused the write
C31_Witness ==
    /\ last.op = "tag_link"
    /\ last.event = "write_conn_error"
    /\ last.fallback = "written"
    /\ last.metadata.purple.output = [has_output |-> "false", error |-> "parse_error"]
    /\ \E name \in DOMAIN fallback_files : fallback_files[name] = last.metadata

\* C32: the status query is read-only: none of its steps changes
\* failure_count, circuit_open, the limiter or the fallback files, and the
\* breaker state and failure count of its answer are the current values.
C32_StatusReadOnly ==
    [][last'.op = "status" =>
          /\ failure_count' = failure_count
          /\ circuit_open' = circuit_open
          /\ tag_semaphore' = tag_semaphore
          /\ fallback_files' = fallback_files
          /\ index_calls' = index_calls
          /\ last'.event = "reported" =>
                /\ last'.value.circuit_breaker_open = circuit_open'
                /\ last'.value.failure_count = failure_count']_vars

\* a query whose info() failed, answered while the breaker is open
C32_Witness ==
    /\ last.op = "status"
    /\ last.event = "reported"
    /\ last.value.elk_status = "error"
    /\ last.value.circuit_breaker_open
    /\ last.value.failure_count = TEST_MAX_FAILURES

\* C33: after enable() has completed with the event service available (and a
\* valid configuration), it has not failed, and handlers are registered for
\* operation/state_changed, operation/completed and link/status_changed.
C33_AllHandlersRegistered ==
    (hook.pc = "done" /\ hook.services.config_ok /\ hook.services.event_svc)
    => /\ hook.result = "enabled"
       /\ {subscription.topic : subscription \in hook.observed}
             = {Topic("operation", "state_changed"), Topic("operation", "completed"),
                Topic("link", "status_changed")}

C35_ActiveWhileGenerating ==
    reports.active = {request.id : request \in Generating}

\* a generation has ended by timeout and its id is gone, while the report of
\* another operation is still being generated
C35_Witness ==
    /\ reports.answer.via = "api"
    /\ reports.answer.status = 504
    /\ reports.answer.id = "a"
    /\ reports.active = {"b"}

\* C36: nothing is generated for an operation that is not finished: the REST
\* endpoint answers 400, the event handler returns, PDFGenerator.generate
\* returns None, and none of them hands a rendering to the executor.
C36_OnlyFinishedOperations ==
    [][/\ \A request \in reports.requests :
             (/\ LocateDone(request)
              /\ request.id \in DOMAIN DataOperations
              /\ DataOperations[request.id].state # "finished")
             => /\ reports'.answer.n = request.n
                /\ reports'.answer.status = IF request.via = "api" THEN 400 ELSE 0
                /\ reports'.answer.result = "not finished"
                /\ reports'.renderings = reports.renderings
                /\ reports'.active = reports.active
                /\ Generating' = Generating
       /\ \A operation \in DirectOperations :
             (/\ GenerateCall(operation)
              /\ ~operation.is_none
              /\ operation.state # "finished")
             => /\ reports'.answer.via = "direct"
                /\ reports'.answer.result = "none"
                /\ reports'.renderings = reports.renderings
                /\ reports'.requests = reports.requests
       /\ reports'.renderings # reports.renderings =>
             \E request \in reports'.requests \ reports.requests :
                /\ request.pc = "render"
                /\ request.id \in DOMAIN DataOperations
                /\ DataOperations[request.id].state = "finished"]_vars

\* generate() was called for the running operation and returned None, and
\* nothing has been handed to the executor
C36_Witness ==
    /\ reports.answer.via = "direct"
    /\ reports.answer.id = "r"
    /\ reports.answer.result = "none"
    /\ reports.renderings = 0
    /\ reports.made > 1

\* C37: in every state reached by tag() and tag_link() calls with any backend
\* outcomes, circuit_open is true exactly when failure_count has reached
\* max_failures, and failure_count is not negative.
C37_BreakerMatchesCount ==
    /\ circuit_open <=> failure_count >= max_failures
    /\ failure_count >= 0

\* a write that was in flight when the breaker opened has failed as well
C37_Witness ==
    /\ circuit_open
    /\ failure_count = max_failures + 1
    /\ last.event = "write_conn_error"

\* C38: a call whose backend write succeeded never reaches the fallback step:
\* at the step where the write is acknowledged the call returns, no fallback
\* file is written and no call moves on to the fallback step.
C38_AcceptedNeverFallsBack ==
    [][last'.event \in {"write_ok", "write_ok_log_error"} =>
          /\ fallback_files' = fallback_files
          /\ last'.fallback = "not_run"
          /\ \A c \in BagToSet(calls') :
                c.stage = "to_thread" =>
                   (c \in BagToSet(calls) /\ calls'[c] = calls[c])]_vars

\* C39: in every available result of the reporting ELKFetcher the summary
\* counts are technique counts: detected, evaded and pending each equal the
\* number of techniques of the map with that verdict, so they sum to the
\* number of techniques.
C39_SummaryCountsTechniques ==
    Answered("reporting") =>
        LET techniques == fetch.result.techniques
            summary == fetch.result.summary
            WithVerdict(status) ==
                Cardinality({t \in DOMAIN techniques :
                                techniques[t].status = status})
        IN /\ summary.detected = WithVerdict(DETECTED)
           /\ summary.evaded = WithVerdict(EVADED)
           /\ summary.pending = WithVerdict(PENDING)
           /\ summary.detected + summary.evaded + summary.pending
                 = Cardinality(DOMAIN techniques)

====
